---- MODULE Spec2Model ----
(***************************************************************************)
(* Workflow automation engine of database_utils/utils/workflow_engine.py:  *)
(* trigger matching (find_matching_workflows, _matches_field_conditions)   *)
(* and the DAG executor (execute_workflow, execute_step and the two step   *)
(* interpreters) running inside one SQLAlchemy session.                    *)
(*                                                                         *)
(* Spec       one run of execute_workflow on a loaded workflow, step by    *)
(*            step, with the session's transaction and the committed       *)
(*            database kept apart.                                         *)
(* SpecMatch  find_matching_workflows applied to bounded workflow and      *)
(*            trigger tables and bounded change events.                    *)
(* SpecCond   _matches_field_conditions applied to bounded conditions and  *)
(*            snapshots.                                                   *)
(* SpecAsync  check_workflow_triggers and the background tasks of          *)
(*            _execute_workflow_async on one event loop, with the          *)
(*            recursion depth context variable and one session per run.    *)
(* SpecStep   one call of execute_step on bounded rows and configurations. *)
(* SpecCycle  detect_cycle applied to bounded graphs, next to a run of     *)
(*            execute_workflow on the same graph.                          *)
(***************************************************************************)
EXTENDS Integers, Sequences, FiniteSets, TLC

\* Bounds of the model.
MaxSteps == 3
MaxEdges == 2

VARIABLES
    workflow,          \* the Workflow loaded with its steps and edges
    pc,                \* position of the run inside execute_workflow
    execution,         \* the WorkflowExecution object (or NoExecution)
    step_executions,   \* the WorkflowStepExecution objects, in creation order
    in_degree,         \* local in_degree of execute_workflow
    adjacency,         \* local adjacency of execute_workflow
    queue,             \* local deque of execute_workflow
    execution_context, \* local execution_context of execute_workflow
    entities,          \* domain rows as the session's objects hold them
    tx,                \* what the session has flushed into its open transaction
    tx_state,          \* "active", "failed" (a flush raised), "closed"
    committed,         \* what every other session can read
    tables,            \* workflow and workflow_trigger tables (matcher)
    call,              \* arguments of the last find_matching_workflows call
    matched,           \* list returned by find_matching_workflows
    cond_call,         \* arguments of the _matches_field_conditions call
    cond_result,       \* what _matches_field_conditions returned
    step_call,         \* arguments of the execute_step call
    step_result,       \* what execute_step returned or raised
    tasks,             \* the asyncio tasks created by check_workflow_triggers
    last_call,         \* the last call of check_workflow_triggers and its outcome
    depth_var,         \* _workflow_execution_depth: its value in each context
    sessions,          \* the sessions opened so far (the first is the request's)
    current,           \* the task the event loop is running (0: none)
    cycle_call,        \* arguments of the detect_cycle call
    cycle_result       \* what detect_cycle returned

vars == <<workflow, pc, execution, step_executions, in_degree, adjacency, queue,
          execution_context, entities, tx, tx_state, committed, tables, call, matched,
          cond_call, cond_result, step_call, step_result,
          tasks, last_call, depth_var, sessions, current,
          cycle_call, cycle_result>>

runVars == <<workflow, pc, execution, step_executions, in_degree, adjacency, queue,
             execution_context, entities, tx, tx_state, committed>>

matchVars == <<tables, call, matched>>

condVars == <<cond_call, cond_result>>

stepVars == <<step_call, step_result>>

asyncVars == <<tasks, last_call, depth_var, sessions, current>>

cycleVars == <<cycle_call, cycle_result>>

(***************************************************************************)
(* Small helpers                                                           *)
(***************************************************************************)
Has(d, k) == k \in DOMAIN d

Range(s) == {s[i] : i \in 1..Len(s)}

EmptyDict == [k \in {} |-> 0]

\* str(uuid): the text form of an id, and the way a UUID column reads it back.
UuidStr(id) == <<"uuid", id>>

ParseUuid(s) == s[2]

(***************************************************************************)
(* Data model (models/workflow.py, models/crm.py)                          *)
(***************************************************************************)
ExecutionStatus == {"PENDING", "RUNNING", "COMPLETED", "FAILED", "SKIPPED"}

StepActionType == {"UPDATE_FIELD", "CREATE_ENTITY", "HTTP_REQUEST"}

Null == "NULL"

\* resource types of _get_model_map that the model carries
ModelMap == {"client", "order"}

\* nullable=False columns without a default
RequiredColumns(resource_type) ==
    IF resource_type = "client" THEN {"company_id", "name"}
    ELSE {"company_id", "status"}

ClientRow(id, company_id, name, phone) ==
    [resource_type |-> "client", id |-> id, company_id |-> company_id,
     name |-> name, phone |-> phone]

OrderRow(id, company_id, status, client_id) ==
    [resource_type |-> "order", id |-> id, company_id |-> company_id,
     status |-> status, client_id |-> client_id]

\* a model class called with keyword arguments: the other columns stay NULL
NewEntity(resource_type, id, data) ==
    LET blank == IF resource_type = "client"
                 THEN ClientRow(id, Null, Null, Null)
                 ELSE OrderRow(id, Null, Null, Null)
    IN [c \in DOMAIN blank |-> IF c \in DOMAIN data THEN data[c] ELSE blank[c]]

\* hasattr(entity, field)
HasAttr(entity, field) == field \in (DOMAIN entity \ {"resource_type"})

\* the rows of the database before the run
InitialRows ==
    ("r1" :> ClientRow("r1", "c1", "Ann", "111")) @@
    ("r2" :> ClientRow("r2", "c2", "Bob", "222")) @@
    ("r3" :> OrderRow("r3", "c1", "ACTIVE", "r1")) @@
    ("r4" :> OrderRow("r4", "c2", "ACTIVE", "r1"))

\* ids uuid.uuid4 can still hand out
FreshIds == {"n1", "n2", "n3", "n4", "n5", "n6"}

\* the serialized change event handed to the run, and the run's company
TriggerEvent ==
    [resource_type |-> "client", event_type |-> "UPDATED", resource_id |-> UuidStr("r1")]

CompanyId == "c1"

NoExecution == [status |-> "NONE"]

NoError == <<>>

NoResult == [k \in {} |-> 0]

EmptyDb == [executions |-> <<>>, step_executions |-> <<>>, rows |-> InitialRows]

(***************************************************************************)
(* The SQLAlchemy session (database.py: autocommit=False, autoflush=False) *)
(* A session value S holds the objects of the run and its transaction:     *)
(*   S.execution, S.step_executions, S.entities   the Python objects       *)
(*   S.tx        what has been flushed (read by this session's queries)    *)
(*   S.tx_state  "active" | "failed" | "closed"                            *)
(*   S.committed what other sessions read                                  *)
(***************************************************************************)
Pending(S) ==
    [executions |-> IF S.execution = NoExecution THEN <<>> ELSE <<S.execution>>,
     step_executions |-> S.step_executions,
     rows |-> S.entities]

Violates(row) == \E c \in RequiredColumns(row.resource_type) : row[c] = Null

\* Session.flush(): writes every pending object into the transaction.  A row
\* breaking a NOT NULL constraint makes the INSERT/UPDATE raise; the session
\* then rolls its transaction back and refuses further work until rollback().
FlushRaises(S) ==
    \/ S.tx_state # "active"
    \/ \E id \in DOMAIN S.entities : Violates(S.entities[id])

db_flush(S) ==
    IF S.tx_state # "active" THEN S
    ELSE IF FlushRaises(S)
         THEN [S EXCEPT !.tx = S.committed, !.tx_state = "failed"]
         ELSE [S EXCEPT !.tx = Pending(S)]

\* Session.rollback() followed by Session.close() (_execute_workflow_async)
db_rollback_close(S) ==
    [S EXCEPT !.tx = S.committed, !.tx_state = "closed"]

\* Session.commit(): flush, then make the transaction durable.  On a session
\* whose flush failed it raises instead (CommitRaises) and nothing is written.
CommitRaises(S) == FlushRaises(S)

db_commit(S) ==
    IF CommitRaises(S) THEN db_flush(S)
    ELSE [S EXCEPT !.tx = Pending(S), !.committed = Pending(S)]

(***************************************************************************)
(* Step interpreter (execute_step, _execute_update_field,                  *)
(* _execute_create_entity).  An interpreter call returns the session after *)
(* the call, the exception it raised ("" for none), the error text and the *)
(* result payload.                                                         *)
(***************************************************************************)
Return(S, result) ==
    [S |-> S, raised |-> "", error |-> NoError, result |-> result]

Raise(S, exception, text) ==
    [S |-> S, raised |-> exception, error |-> text, result |-> NoResult]

\* faulty variant: the interpreter returns without flushing
FlushThenReturn_NoFlush(S, result) == Return(S, result)

\* a flush at the end of an interpreter: its exception leaves the interpreter
FlushThenReturn(S, result) ==
    IF FlushRaises(S)
    THEN Raise(db_flush(S), "IntegrityError", <<"null value violates not-null constraint">>)
    ELSE Return(db_flush(S), result)

\* setattr(entity, field, value) for every field of updates the entity has
SetAttrs(entity, updates) ==
    [c \in DOMAIN entity |->
        IF HasAttr(entity, c) /\ c \in DOMAIN updates THEN updates[c] ELSE entity[c]]

\* faulty variant: the query leaves out the company_id filter
QueryIds_AnyCompany(S, resource_type, column, value, company_id) ==
    {id \in DOMAIN S.tx.rows :
        /\ S.tx.rows[id].resource_type = resource_type
        /\ S.tx.rows[id][column] = value}

\* query(model_class).filter(...): the filter is evaluated by the database on
\* what this session has flushed (autoflush is off)
QueryIds(S, resource_type, column, value, company_id) ==
    {id \in DOMAIN S.tx.rows :
        /\ S.tx.rows[id].resource_type = resource_type
        /\ S.tx.rows[id][column] = value
        /\ S.tx.rows[id].company_id = company_id}

\* the empty text; config.get of a missing key gives None, which is as false
EmptyText == <<>>

\* faulty variant: a custom resource_id is ignored
ResolvedId_AlwaysTrigger(config, context, resource_id_source) ==
    context.trigger.resource_id

\* lines 400-403: the id of the triggering resource, or config["resource_id"]
ResolvedId(config, context, resource_id_source) ==
    IF resource_id_source = "trigger" THEN context.trigger.resource_id
    ELSE IF Has(config, "resource_id") THEN config.resource_id
    ELSE EmptyText

_execute_update_field(S, config, context, company_id) ==
    IF ~Has(config, "resource_type") \/ config.resource_type \notin ModelMap
    THEN Raise(S, "ValueError",
               <<"Unknown resource_type",
                 IF Has(config, "resource_type") THEN config.resource_type ELSE "None">>)
    ELSE
    LET resource_type == config.resource_type
        updates == IF Has(config, "updates") THEN config.updates ELSE EmptyDict
        resource_id_source ==
            IF Has(config, "resource_id_source") THEN config.resource_id_source
            ELSE "trigger"
    IN
    IF resource_id_source = "match_field"
    THEN
        IF ~Has(config, "match_field") \/ config.match_field = ""
        THEN Raise(S, "ValueError", <<"match_field is required">>)
        ELSE
        LET match_field == config.match_field
            trigger_resource_id == context.trigger.resource_id
        IN
        IF ~HasAttr(NewEntity(resource_type, Null, EmptyDict), match_field)
        THEN Raise(S, "ValueError", <<resource_type, "has no field", match_field>>)
        ELSE
        LET ids == QueryIds(S, resource_type, match_field,
                            ParseUuid(trigger_resource_id), company_id)
            S1 == [S EXCEPT !.entities =
                      [id \in DOMAIN S.entities |->
                          IF id \in ids THEN SetAttrs(S.entities[id], updates)
                          ELSE S.entities[id]]]
            updated_fields ==
                IF ids = {} THEN {}
                ELSE {f \in DOMAIN updates :
                         HasAttr(NewEntity(resource_type, Null, EmptyDict), f)}
        IN FlushThenReturn(S1,
               [updated_fields |-> updated_fields,
                updated_count |-> Cardinality(ids),
                updated_ids |-> {UuidStr(id) : id \in ids},
                match_field |-> match_field])
    ELSE
        LET resource_id == ResolvedId(config, context, resource_id_source)
        IN
        IF resource_id = EmptyText
        THEN Raise(S, "ValueError", <<"No resource_id resolved for UPDATE_FIELD step">>)
        ELSE
        LET ids == QueryIds(S, resource_type, "id", ParseUuid(resource_id), company_id)
        IN
        IF ids = {}
        THEN Raise(S, "ValueError", <<resource_type, resource_id, "not found">>)
        ELSE
        LET id == CHOOSE i \in ids : TRUE
            S1 == [S EXCEPT !.entities[id] = SetAttrs(S.entities[id], updates)]
        IN FlushThenReturn(S1,
               [updated_fields |-> {f \in DOMAIN updates : HasAttr(S.entities[id], f)},
                resource_id |-> resource_id])

\* faulty variant: the run's company is only a default for the configured data
CreateData_KeepsConfigured(config, company_id) ==
    LET data0 == IF Has(config, "data") THEN config.data ELSE EmptyDict
    IN [k \in DOMAIN data0 \cup {"company_id"} |->
           IF k \in DOMAIN data0 THEN data0[k] ELSE company_id]

\* lines 439-440: a copy of config["data"] with company_id set to the run's
CreateData(config, company_id) ==
    LET data0 == IF Has(config, "data") THEN config.data ELSE EmptyDict
    IN [k \in DOMAIN data0 \cup {"company_id"} |->
           IF k = "company_id" THEN company_id ELSE data0[k]]

\* the INSERT of a row whose primary key the table already holds
DuplicateKey(S) ==
    Raise([S EXCEPT !.tx = S.committed, !.tx_state = "failed"],
          "IntegrityError", <<"duplicate key value violates unique constraint">>)

_execute_create_entity(S, config, context, company_id) ==
    IF ~Has(config, "resource_type") \/ config.resource_type \notin ModelMap
    THEN Raise(S, "ValueError",
               <<"Unknown resource_type",
                 IF Has(config, "resource_type") THEN config.resource_type ELSE "None">>)
    ELSE
    LET resource_type == config.resource_type
        data == CreateData(config, company_id)
    IN
    IF \E k \in DOMAIN data : ~HasAttr(NewEntity(resource_type, Null, EmptyDict), k)
    THEN Raise(S, "TypeError", <<"invalid keyword argument for", resource_type>>)
    ELSE IF Has(data, "id") /\ data.id \in DOMAIN S.entities
    THEN DuplicateKey(S)
    ELSE
    LET id == IF Has(data, "id") THEN data.id
              ELSE CHOOSE i \in FreshIds : i \notin DOMAIN S.entities
        entity == NewEntity(resource_type, id, data)
        S1 == [S EXCEPT !.entities = (id :> entity) @@ S.entities]
    IN FlushThenReturn(S1,
           [created_resource_type |-> resource_type, resource_id |-> UuidStr(id)])

execute_step(S, step, context, company_id) ==
    IF step.action_type = "UPDATE_FIELD"
    THEN _execute_update_field(S, step.action_config, context, company_id)
    ELSE IF step.action_type = "CREATE_ENTITY"
    THEN _execute_create_entity(S, step.action_config, context, company_id)
    ELSE Raise(S, "ValueError", <<"Unsupported action type", step.action_type>>)

(***************************************************************************)
(* Trigger matcher (find_matching_workflows, _matches_field_conditions)    *)
(*                                                                         *)
(* A Python value is its type and its str() text; str() keeps the text and *)
(* forgets the type.  None is a value; a dict is a function from keys.     *)
(***************************************************************************)
PyVal(type, text) == [t |-> type, v |-> text]

PyNone == PyVal("NoneType", "None")

PyStr(text) == PyVal("str", text)

PyDict(d) == [t |-> "dict", d |-> d]

\* str(x)
Str(x) == x.v

\* faulty variant: tests `is not None` instead of the truth value
Truthy_IsNotNone(x) == x.t # "NoneType"

\* bool(x) for None, str, int, bool and dict values
Truthy(x) ==
    IF x.t = "NoneType" THEN FALSE
    ELSE IF x.t = "dict" THEN DOMAIN x.d # {}
    ELSE IF x.t = "str" THEN x.v # ""
    ELSE IF x.t = "int" THEN x.v # "0"
    ELSE x.v # "False"

\* d.get(key) on a dict d
DictGet(x, key) == IF key \in DOMAIN x.d THEN x.d[key] ELSE PyNone

\* faulty variant: an operator that is none of the four matches nothing
_matches_field_conditions_FailClosed(conditions, before_data, after_data) ==
    IF conditions = PyNone THEN TRUE
    ELSE
    LET field == DictGet(conditions, "field")
        operator == DictGet(conditions, "operator")
        value == DictGet(conditions, "value")
    IN
    IF ~Truthy(field) \/ ~Truthy(operator) THEN TRUE
    ELSE IF operator = PyStr("changed")
    THEN IF Truthy(before_data) /\ Truthy(after_data)
         THEN Str(DictGet(before_data, field.v)) # Str(DictGet(after_data, field.v))
         ELSE TRUE
    ELSE IF operator \in {PyStr("changed_to"), PyStr("equals")}
    THEN IF Truthy(after_data)
         THEN Str(DictGet(after_data, field.v)) = Str(value)
         ELSE FALSE
    ELSE IF operator = PyStr("changed_from")
    THEN IF Truthy(before_data)
         THEN Str(DictGet(before_data, field.v)) = Str(value)
         ELSE FALSE
    ELSE FALSE

_matches_field_conditions(conditions, before_data, after_data) ==
    IF conditions = PyNone THEN TRUE
    ELSE
    LET field == DictGet(conditions, "field")
        operator == DictGet(conditions, "operator")
        value == DictGet(conditions, "value")
    IN
    IF ~Truthy(field) \/ ~Truthy(operator) THEN TRUE
    ELSE IF operator = PyStr("changed")
    THEN IF Truthy(before_data) /\ Truthy(after_data)
         THEN Str(DictGet(before_data, field.v)) # Str(DictGet(after_data, field.v))
         ELSE TRUE
    ELSE IF operator = PyStr("changed_to")
    THEN IF Truthy(after_data)
         THEN Str(DictGet(after_data, field.v)) = Str(value)
         ELSE FALSE
    ELSE IF operator = PyStr("changed_from")
    THEN IF Truthy(before_data)
         THEN Str(DictGet(before_data, field.v)) = Str(value)
         ELSE FALSE
    ELSE IF operator = PyStr("equals")
    THEN IF Truthy(after_data)
         THEN Str(DictGet(after_data, field.v)) = Str(value)
         ELSE FALSE
    ELSE TRUE

\* the workflow table
WorkflowRows ==
    <<[id |-> "w1", company_id |-> "c1", is_active |-> TRUE],
      [id |-> "w2", company_id |-> "c1", is_active |-> FALSE],
      [id |-> "w3", company_id |-> "c2", is_active |-> TRUE]>>

\* triggers(tbl, w): the workflow_trigger rows of workflow w (Workflow.triggers)
TriggersOf(tbl, workflow_id) ==
    SelectSeq(tbl.triggers, LAMBDA trigger : trigger.workflow_id = workflow_id)

\* the entities of a list of joined rows, each kept once, in first-seen order
RECURSIVE Unique(_, _)
Unique(rows, seen) ==
    IF rows = <<>> THEN <<>>
    ELSE IF Head(rows) \in seen THEN Unique(Tail(rows), seen)
    ELSE <<Head(rows)>> \o Unique(Tail(rows), seen \cup {Head(rows)})

\* one workflow per (workflow, trigger) row of the join
RECURSIVE JoinRows(_, _)
JoinRows(workflows, triggers) ==
    IF triggers = <<>> THEN <<>>
    ELSE SelectSeq(workflows, LAMBDA w : w.id = Head(triggers).workflow_id)
         \o JoinRows(workflows, Tail(triggers))

\* faulty variant: one list entry per joined (workflow, trigger) row
QueryWorkflows_NoUnique(tbl, company_id, resource_type, event_type) ==
    JoinRows(SelectSeq(tbl.workflows,
                       LAMBDA w : w.company_id = company_id /\ w.is_active),
             SelectSeq(tbl.triggers,
                       LAMBDA trigger : /\ trigger.resource_type = resource_type
                                        /\ trigger.event_type = event_type))

\* lines 140-151: query(Workflow).join(WorkflowTrigger).filter(...).all();
\* a Query returning one entity keeps each entity once
QueryWorkflows(tbl, company_id, resource_type, event_type) ==
    Unique(JoinRows(SelectSeq(tbl.workflows,
                              LAMBDA w : w.company_id = company_id /\ w.is_active),
                    SelectSeq(tbl.triggers,
                              LAMBDA trigger : /\ trigger.resource_type = resource_type
                                               /\ trigger.event_type = event_type)),
           {})

\* lines 155-162: does some trigger of the workflow match (the loop with break)
AnyTriggerMatches(triggers, resource_type, event_type, before_data, after_data) ==
    \E i \in 1..Len(triggers) :
        /\ triggers[i].resource_type = resource_type
        /\ triggers[i].event_type = event_type
        /\ _matches_field_conditions(triggers[i].field_conditions, before_data, after_data)

find_matching_workflows(tbl, company_id, resource_type, event_type, before_data, after_data) ==
    SelectSeq(QueryWorkflows(tbl, company_id, resource_type, event_type),
              LAMBDA w : AnyTriggerMatches(TriggersOf(tbl, w.id), resource_type,
                                           event_type, before_data, after_data))

(***************************************************************************)
(* DAG executor (execute_workflow) inside _execute_workflow_async          *)
(***************************************************************************)
StepIds == 1..MaxSteps

\* workflow_step_edge rows of the workflow; an endpoint that is no step of the
\* workflow is a step of another workflow
EdgeRows == [from_step_id : StepIds, to_step_id : StepIds]

\* Workflow.edges as loaded.  adjacency[s] keeps the load order of the edges
\* leaving s and nothing else of the order, so the lists are taken with the
\* edges grouped by source step, in any order within a group.
EdgeLists ==
    {es \in UNION {[1..n -> EdgeRows] : n \in 0..MaxEdges} :
        \A i \in 1..(Len(es) - 1) : es[i].from_step_id <= es[i + 1].from_step_id}

\* the loaded workflows: steps 1..n in load order, any list of edges
Workflows ==
    {[id |-> "w1", company_id |-> CompanyId,
      steps |-> [i \in 1..n |-> [id |-> i]], edges |-> es] :
        n \in 0..MaxSteps, es \in EdgeLists}

\* the action_type and action_config a step of the workflow can carry; a step's
\* action is read when the step is executed and is drawn then
StepActions ==
    {[action_type |-> "CREATE_ENTITY",
      action_config |-> [resource_type |-> "order",
                         data |-> [status |-> "ACTIVE", client_id |-> "r1",
                                   company_id |-> "c2"]]],
     [action_type |-> "UPDATE_FIELD",
      action_config |-> [resource_type |-> "order", resource_id_source |-> "match_field",
                         match_field |-> "client_id",
                         updates |-> [status |-> "CANCELLED"]]],
     [action_type |-> "CREATE_ENTITY",
      action_config |-> [resource_type |-> "client", data |-> [phone |-> "999"]]],
     [action_type |-> "HTTP_REQUEST",
      action_config |-> [url |-> "http://example.test"]],
     [action_type |-> "UPDATE_FIELD",
      action_config |-> [resource_type |-> "widget", updates |-> [phone |-> "555"]]],
     [action_type |-> "UPDATE_FIELD",
      action_config |-> [resource_type |-> "order", resource_id_source |-> "match_field",
                         updates |-> [status |-> "CANCELLED"]]],
     [action_type |-> "UPDATE_FIELD",
      action_config |-> [resource_type |-> "client", resource_id_source |-> "custom",
                         updates |-> [phone |-> "555"]]],
     [action_type |-> "UPDATE_FIELD",
      action_config |-> [resource_type |-> "client", resource_id_source |-> "custom",
                         resource_id |-> UuidStr("r2"),
                         updates |-> [phone |-> "555"]]]}

Sess ==
    [execution |-> execution, step_executions |-> step_executions,
     entities |-> entities, tx |-> tx, tx_state |-> tx_state, committed |-> committed]

SetSess(S) ==
    /\ execution' = S.execution
    /\ step_executions' = S.step_executions
    /\ entities' = S.entities
    /\ tx' = S.tx
    /\ tx_state' = S.tx_state
    /\ committed' = S.committed

\* db.commit() at the end of execute_workflow, then the wrapper: an exception
\* of commit reaches `except` (rollback), and `finally` closes the session
CommitAndClose(S) ==
    IF CommitRaises(S) THEN db_rollback_close(S)
    ELSE [db_commit(S) EXCEPT !.tx_state = "closed"]

\* faulty variant: counts an edge coming from a step of another workflow
RECURSIVE BuildGraph_CountsForeign(_, _, _)
BuildGraph_CountsForeign(edges, ind, adj) ==
    IF edges = <<>> THEN [in_degree |-> ind, adjacency |-> adj]
    ELSE LET edge == Head(edges)
         IN IF edge.to_step_id \in DOMAIN ind
            THEN BuildGraph_CountsForeign(Tail(edges),
                     [ind EXCEPT ![edge.to_step_id] = @ + 1],
                     IF edge.from_step_id \in DOMAIN adj
                     THEN [adj EXCEPT ![edge.from_step_id] = Append(@, edge.to_step_id)]
                     ELSE adj)
            ELSE BuildGraph_CountsForeign(Tail(edges), ind, adj)

\* lines 272-278: in_degree and adjacency from the edges between own steps
RECURSIVE BuildGraph(_, _, _)
BuildGraph(edges, ind, adj) ==
    IF edges = <<>> THEN [in_degree |-> ind, adjacency |-> adj]
    ELSE LET edge == Head(edges)
         IN IF edge.from_step_id \in DOMAIN adj /\ edge.to_step_id \in DOMAIN ind
            THEN BuildGraph(Tail(edges),
                            [ind EXCEPT ![edge.to_step_id] = @ + 1],
                            [adj EXCEPT ![edge.from_step_id] = Append(@, edge.to_step_id)])
            ELSE BuildGraph(Tail(edges), ind, adj)

\* lines 311-314: one pass over the neighbours of the finished step
RECURSIVE ReduceInDegree(_, _, _)
ReduceInDegree(neighbors, ind, q) ==
    IF neighbors = <<>> THEN [in_degree |-> ind, queue |-> q]
    ELSE LET neighbor_id == Head(neighbors)
             ind1 == [ind EXCEPT ![neighbor_id] = @ - 1]
         IN ReduceInDegree(Tail(neighbors), ind1,
                           IF ind1[neighbor_id] = 0 THEN Append(q, neighbor_id) ELSE q)

\* faulty variant: queues every step, whatever its in-degree
InitialQueue_AllSteps(step_ids, ind) == step_ids

\* faulty variant: only the first step of in-degree 0 is queued
InitialQueue_FirstOnly(step_ids, ind) ==
    IF SelectSeq(step_ids, LAMBDA sid : ind[sid] = 0) = <<>> THEN <<>>
    ELSE <<Head(SelectSeq(step_ids, LAMBDA sid : ind[sid] = 0))>>

\* line 281: the steps of in-degree 0, in the order of in_degree.items()
InitialQueue(step_ids, ind) == SelectSeq(step_ids, LAMBDA sid : ind[sid] = 0)

\* faulty variant: completed_at is stamped when the row is made
NewExecution_Stamped(workflow_id) ==
    [workflow_id |-> workflow_id, status |-> "RUNNING", error |-> NoError,
     completed_at |-> TRUE]

\* lines 254-259
NewExecution(workflow_id) ==
    [workflow_id |-> workflow_id, status |-> "RUNNING", error |-> NoError,
     completed_at |-> FALSE]

NewStepExecution(step_id) ==
    [step_id |-> step_id, status |-> "RUNNING", result |-> NoResult,
     error |-> NoError, completed_at |-> FALSE]

\* faulty variant: returns for the empty workflow without committing
ExecuteWorkflowEmpty_NoCommit ==
    /\ pc = "loaded"
    /\ Len(workflow.steps) = 0
    /\ LET S0 == db_flush([Sess EXCEPT !.execution = NewExecution(workflow.id)])
           S1 == [S0 EXCEPT !.execution.status = "COMPLETED",
                            !.execution.completed_at = TRUE]
       IN SetSess(db_rollback_close(S1))
    /\ pc' = "done"
    /\ UNCHANGED <<workflow, in_degree, adjacency, queue, execution_context>>

\* lines 254-269: the Execution row, and the run of a workflow without steps
ExecuteWorkflowEmpty ==
    /\ pc = "loaded"
    /\ Len(workflow.steps) = 0
    /\ LET S0 == db_flush([Sess EXCEPT !.execution = NewExecution(workflow.id)])
           S1 == [S0 EXCEPT !.execution.status = "COMPLETED",
                            !.execution.completed_at = TRUE]
       IN SetSess(CommitAndClose(S1))
    /\ pc' = "done"
    /\ UNCHANGED <<workflow, in_degree, adjacency, queue, execution_context>>

\* faulty variant: commits the Execution row instead of flushing it
ExecuteWorkflowBegin_Commits ==
    /\ pc = "loaded"
    /\ Len(workflow.steps) > 0
    /\ SetSess(db_commit([Sess EXCEPT !.execution = NewExecution(workflow.id)]))
    /\ LET step_ids == [i \in 1..Len(workflow.steps) |-> workflow.steps[i].id]
           g == BuildGraph(workflow.edges,
                           [sid \in Range(step_ids) |-> 0],
                           [sid \in Range(step_ids) |-> <<>>])
       IN /\ in_degree' = g.in_degree
          /\ adjacency' = g.adjacency
          /\ queue' = InitialQueue(step_ids, g.in_degree)
    /\ execution_context' = [trigger |-> TriggerEvent, steps |-> EmptyDict]
    /\ pc' = "running"
    /\ UNCHANGED workflow

\* lines 254-282: the Execution row, in_degree, adjacency and the first queue
ExecuteWorkflowBegin ==
    /\ pc = "loaded"
    /\ Len(workflow.steps) > 0
    /\ SetSess(db_flush([Sess EXCEPT !.execution = NewExecution(workflow.id)]))
    /\ LET step_ids == [i \in 1..Len(workflow.steps) |-> workflow.steps[i].id]
           g == BuildGraph(workflow.edges,
                           [sid \in Range(step_ids) |-> 0],
                           [sid \in Range(step_ids) |-> <<>>])
       IN /\ in_degree' = g.in_degree
          /\ adjacency' = g.adjacency
          /\ queue' = InitialQueue(step_ids, g.in_degree)
    /\ execution_context' = [trigger |-> TriggerEvent, steps |-> EmptyDict]
    /\ pc' = "running"
    /\ UNCHANGED workflow

\* lines 286-299: pop a step, add and flush its StepExecution, call the interpreter
StepCall(action) ==
    LET step_id == Head(queue)
        step == [id |-> step_id, action_type |-> action.action_type,
                 action_config |-> action.action_config]
        S0 == db_flush([Sess EXCEPT !.step_executions = Append(@, NewStepExecution(step_id))])
    IN execute_step(S0, step, execution_context, CompanyId)

\* lines 300-303 and 311-314: the step succeeded
RunStepCompleted ==
    /\ pc = "running"
    /\ queue # <<>>
    /\ \E action \in StepActions :
        LET r == StepCall(action)
            step_id == Head(queue)
            k == Len(r.S.step_executions)
            red == ReduceInDegree(adjacency[step_id], in_degree, Tail(queue))
        IN /\ r.raised = ""
           /\ SetSess([r.S EXCEPT !.step_executions[k].status = "COMPLETED",
                                  !.step_executions[k].result = r.result,
                                  !.step_executions[k].completed_at = TRUE])
           /\ execution_context' =
                 [execution_context EXCEPT !.steps = (step_id :> r.result) @@ @]
           /\ in_degree' = red.in_degree
           /\ queue' = red.queue
    /\ pc' = "running"
    /\ UNCHANGED <<workflow, adjacency>>

\* faulty variant: marks the step FAILED but does not re-raise, so the loop goes on
RunStepFailed_NoReraise ==
    /\ pc = "running"
    /\ queue # <<>>
    /\ \E action \in StepActions :
        LET r == StepCall(action)
            step_id == Head(queue)
            k == Len(r.S.step_executions)
            red == ReduceInDegree(adjacency[step_id], in_degree, Tail(queue))
        IN /\ r.raised # ""
           /\ SetSess([r.S EXCEPT !.step_executions[k].status = "FAILED",
                                  !.step_executions[k].error = r.error,
                                  !.step_executions[k].completed_at = TRUE])
           /\ in_degree' = red.in_degree
           /\ queue' = red.queue
    /\ pc' = "running"
    /\ UNCHANGED <<workflow, adjacency, execution_context>>

\* faulty variant: records a SKIPPED StepExecution for every step still queued
RunStepFailed_SkipsRest ==
    /\ pc = "running"
    /\ queue # <<>>
    /\ \E action \in StepActions :
        LET r == StepCall(action)
            k == Len(r.S.step_executions)
            rest == Tail(queue)
            skipped == [i \in 1..Len(rest) |->
                           [NewStepExecution(rest[i]) EXCEPT !.status = "SKIPPED"]]
            S1 == [r.S EXCEPT !.step_executions[k].status = "FAILED",
                              !.step_executions[k].error = r.error,
                              !.step_executions[k].completed_at = TRUE]
            S2 == [S1 EXCEPT !.execution.status = "FAILED",
                             !.execution.error = r.error,
                             !.execution.completed_at = TRUE,
                             !.step_executions = @ \o skipped]
        IN /\ r.raised # ""
           /\ SetSess(CommitAndClose(S2))
    /\ queue' = Tail(queue)
    /\ pc' = "done"
    /\ UNCHANGED <<workflow, in_degree, adjacency, execution_context>>

\* lines 304-308 and 319-325: the interpreter raised; the run ends
RunStepFailed ==
    /\ pc = "running"
    /\ queue # <<>>
    /\ \E action \in StepActions :
        LET r == StepCall(action)
            k == Len(r.S.step_executions)
            S1 == [r.S EXCEPT !.step_executions[k].status = "FAILED",
                              !.step_executions[k].error = r.error,
                              !.step_executions[k].completed_at = TRUE]
            S2 == [S1 EXCEPT !.execution.status = "FAILED",
                             !.execution.error = r.error,
                             !.execution.completed_at = TRUE]
        IN /\ r.raised # ""
           /\ SetSess(CommitAndClose(S2))
    /\ queue' = Tail(queue)
    /\ pc' = "done"
    /\ UNCHANGED <<workflow, in_degree, adjacency, execution_context>>

\* faulty variant: a run that left steps unexecuted ends FAILED
ExecuteWorkflowEnd_FailsOnLeftover ==
    /\ pc = "running"
    /\ queue = <<>>
    /\ SetSess(CommitAndClose(
           [Sess EXCEPT !.execution.status =
                            IF Len(step_executions) = Len(workflow.steps)
                            THEN "COMPLETED" ELSE "FAILED",
                        !.execution.completed_at = TRUE]))
    /\ pc' = "done"
    /\ UNCHANGED <<workflow, in_degree, adjacency, queue, execution_context>>

\* lines 316-317 and 325: the queue drained
ExecuteWorkflowEnd ==
    /\ pc = "running"
    /\ queue = <<>>
    /\ SetSess(CommitAndClose([Sess EXCEPT !.execution.status = "COMPLETED",
                                           !.execution.completed_at = TRUE]))
    /\ pc' = "done"
    /\ UNCHANGED <<workflow, in_degree, adjacency, queue, execution_context>>

\* the process dies between two steps: its objects and its open transaction
\* are gone, the committed database stays
Crash ==
    /\ pc = "running"
    /\ pc' = "crashed"
    /\ execution' = NoExecution
    /\ step_executions' = <<>>
    /\ entities' = committed.rows
    /\ tx' = committed
    /\ tx_state' = "closed"
    /\ UNCHANGED <<workflow, in_degree, adjacency, queue, execution_context, committed>>

\* the variables of the other specifications, at rest
NotCalled == [made |-> FALSE]

CondIdle ==
    /\ cond_call = NotCalled
    /\ cond_result = FALSE

StepIdle ==
    /\ step_call = NotCalled
    /\ step_result = NotCalled

AsyncIdle ==
    /\ tasks = <<>>
    /\ last_call = NotCalled
    /\ depth_var = <<>>
    /\ sessions = <<>>
    /\ current = 0

CycleIdle ==
    /\ cycle_call = NotCalled
    /\ cycle_result = NotCalled

Init ==
    /\ workflow \in Workflows
    /\ pc = "loaded"
    /\ execution = NoExecution
    /\ step_executions = <<>>
    /\ in_degree = EmptyDict
    /\ adjacency = EmptyDict
    /\ queue = <<>>
    /\ execution_context = [trigger |-> TriggerEvent, steps |-> EmptyDict]
    /\ entities = InitialRows
    /\ tx = EmptyDb
    /\ tx_state = "active"
    /\ committed = EmptyDb
    /\ tables = [workflows |-> WorkflowRows, triggers |-> <<>>]
    /\ call = [made |-> FALSE]
    /\ matched = <<>>
    /\ CondIdle
    /\ StepIdle
    /\ AsyncIdle
    /\ CycleIdle

Next ==
    \/ ExecuteWorkflowEmpty /\ UNCHANGED <<matchVars, condVars, stepVars, asyncVars, cycleVars>>
    \/ ExecuteWorkflowBegin /\ UNCHANGED <<matchVars, condVars, stepVars, asyncVars, cycleVars>>
    \/ RunStepCompleted /\ UNCHANGED <<matchVars, condVars, stepVars, asyncVars, cycleVars>>
    \/ RunStepFailed /\ UNCHANGED <<matchVars, condVars, stepVars, asyncVars, cycleVars>>
    \/ ExecuteWorkflowEnd /\ UNCHANGED <<matchVars, condVars, stepVars, asyncVars, cycleVars>>
    \/ Crash /\ UNCHANGED <<matchVars, condVars, stepVars, asyncVars, cycleVars>>

Spec == Init /\ [][Next]_vars

(***************************************************************************)
(* SpecMatch: find_matching_workflows on bounded tables and events         *)
(***************************************************************************)
MaxTriggers == 2

ResourceTypes == {"order", "client"}

EventTypes == {"UPDATED", "DELETED"}

Companies == {"c1", "c2"}

FieldConditions ==
    {PyNone,
     PyDict([field |-> PyStr("status"), operator |-> PyStr("changed_to"),
             value |-> PyStr("CANCELLED")])}

TriggerRows ==
    [workflow_id : {"w1", "w2", "w3"}, resource_type : ResourceTypes,
     event_type : EventTypes, field_conditions : FieldConditions]

Snapshots ==
    {PyNone,
     PyDict([status |-> PyStr("ACTIVE")]),
     PyDict([status |-> PyStr("CANCELLED")])}

NoCall == [made |-> FALSE]

InitMatch ==
    /\ tables \in {[workflows |-> WorkflowRows, triggers |-> ts] :
                      ts \in UNION {[1..n -> TriggerRows] : n \in 0..MaxTriggers}}
    /\ call = NoCall
    /\ matched = <<>>
    /\ workflow = [id |-> "w1", company_id |-> CompanyId, steps |-> <<>>, edges |-> <<>>]
    /\ pc = "idle"
    /\ execution = NoExecution
    /\ step_executions = <<>>
    /\ in_degree = EmptyDict
    /\ adjacency = EmptyDict
    /\ queue = <<>>
    /\ execution_context = [trigger |-> TriggerEvent, steps |-> EmptyDict]
    /\ entities = InitialRows
    /\ tx = EmptyDb
    /\ tx_state = "closed"
    /\ committed = EmptyDb
    /\ CondIdle
    /\ StepIdle
    /\ AsyncIdle
    /\ CycleIdle

FindMatchingWorkflows ==
    /\ call = NoCall
    /\ \E company_id \in Companies, resource_type \in ResourceTypes,
          event_type \in EventTypes, after_data \in Snapshots :
        LET before_data == PyDict([status |-> PyStr("ACTIVE")])
        IN /\ call' = [made |-> TRUE, company_id |-> company_id,
                       resource_type |-> resource_type, event_type |-> event_type,
                       before_data |-> before_data, after_data |-> after_data]
           /\ matched' = find_matching_workflows(tables, company_id, resource_type,
                                                 event_type, before_data, after_data)
    /\ UNCHANGED tables

NextMatch == FindMatchingWorkflows /\ UNCHANGED <<runVars, condVars, stepVars, asyncVars, cycleVars>>

SpecMatch == InitMatch /\ [][NextMatch]_vars

(***************************************************************************)
(* Properties of the DAG executor (checked under Spec)                     *)
(***************************************************************************)
StepSet == {workflow.steps[i].id : i \in 1..Len(workflow.steps)}

\* the declared edges between two steps of the workflow
OwnEdges ==
    {<<e.from_step_id, e.to_step_id>> : e \in Range(workflow.edges)}
        \cap (StepSet \X StepSet)

Preds(s) == {p \in StepSet : <<p, s>> \in OwnEdges}

RECURSIVE Closure(_)
Closure(set) ==
    LET more == set \cup UNION {Preds(x) : x \in set}
    IN IF more = set THEN set ELSE Closure(more)

Ancestors(s) == Closure(Preds(s))

OnCycle(s) == s \in Ancestors(s)

\* on a cycle, or below one
BehindCycle(s) == OnCycle(s) \/ \E a \in Ancestors(s) : OnCycle(a)

Cyclic == \E s \in StepSet : OnCycle(s)

ExecutedAt(i) == step_executions[i].step_id

Executed == {ExecutedAt(i) : i \in 1..Len(step_executions)}

TimesExecuted(s) == Cardinality({i \in 1..Len(step_executions) : ExecutedAt(i) = s})

NoStepFailed == \A i \in 1..Len(step_executions) : step_executions[i].status # "FAILED"

RunRecorded ==
    /\ committed.executions = <<execution>>
    /\ committed.step_executions = step_executions

\* C1: a StepExecution exists only if every step with a declared edge into its
\* step already has an earlier StepExecution that is COMPLETED.
C1_PredecessorsCompletedFirst ==
    \A i \in 1..Len(step_executions) :
        \A p \in Preds(ExecutedAt(i)) :
            \E j \in 1..(i - 1) :
                /\ ExecutedAt(j) = p
                /\ step_executions[j].status = "COMPLETED"

C1_Witness ==
    /\ Len(step_executions) = 3
    /\ Preds(ExecutedAt(3)) = {ExecutedAt(1), ExecutedAt(2)}

\* C2: on an acyclic graph (duplicate edges and edges to foreign steps
\* included) a run whose interpreter calls all succeed ends with exactly one
\* StepExecution per step, all COMPLETED, and a COMPLETED Execution, and no
\* run makes more StepExecutions than the workflow has steps.
C2_AcyclicRunsEveryStepOnce ==
    /\ Len(step_executions) <= Len(workflow.steps)
    /\ (pc = "running" /\ queue = <<>> /\ ~Cyclic /\ NoStepFailed)
           => Executed = StepSet
    /\ (pc = "done" /\ ~Cyclic /\ NoStepFailed) =>
           /\ \A s \in StepSet : TimesExecuted(s) = 1
           /\ Len(step_executions) = Cardinality(StepSet)
           /\ \A i \in 1..Len(step_executions) : step_executions[i].status = "COMPLETED"
           /\ execution.status = "COMPLETED"
           /\ RunRecorded

C2_Witness ==
    /\ pc = "done"
    /\ ~Cyclic
    /\ NoStepFailed
    /\ Len(step_executions) = 3
    /\ \E i, j \in 1..Len(workflow.edges) :
          i # j /\ workflow.edges[i] = workflow.edges[j]
          /\ <<workflow.edges[i].from_step_id, workflow.edges[i].to_step_id>> \in OwnEdges

C2_WitnessForeignEdge ==
    /\ pc = "done"
    /\ ~Cyclic
    /\ NoStepFailed
    /\ Len(step_executions) = 2
    /\ \E e \in Range(workflow.edges) :
          e.from_step_id \notin StepSet /\ e.to_step_id \in StepSet

\* C3: a workflow without steps gets a COMPLETED Execution and no
\* StepExecution, whatever edges it owns.
C3_EmptyWorkflowCompletes ==
    Len(workflow.steps) = 0 =>
        /\ pc \in {"loaded", "done"}
        /\ step_executions = <<>>
        /\ pc = "done" =>
              /\ execution.status = "COMPLETED"
              /\ committed.executions = <<execution>>
              /\ committed.step_executions = <<>>

C3_Witness ==
    /\ pc = "done"
    /\ Len(workflow.steps) = 0
    /\ Len(workflow.edges) = MaxEdges
    /\ committed.executions # <<>>

\* C4: on a cyclic graph no step on a cycle or below one ever gets a
\* StepExecution; a run whose steps all succeed executes every other step
\* exactly once and still ends COMPLETED.
C4_CycleStepsNeverRun ==
    /\ \A s \in Executed : ~BehindCycle(s)
    /\ (pc = "done" /\ Cyclic /\ NoStepFailed) =>
           /\ \A s \in StepSet : TimesExecuted(s) = (IF BehindCycle(s) THEN 0 ELSE 1)
           /\ execution.status = "COMPLETED"
           /\ RunRecorded

C4_Witness ==
    /\ pc = "done"
    /\ NoStepFailed
    /\ Executed # {}
    /\ \E s, t \in StepSet : OnCycle(s) /\ ~OnCycle(t) /\ BehindCycle(t)
    /\ execution.status = "COMPLETED"

C4_WitnessAllOnCycle ==
    /\ pc = "done"
    /\ StepSet # {}
    /\ \A s \in StepSet : OnCycle(s)
    /\ step_executions = <<>>
    /\ committed.executions # <<>>

\* the error text of a failed flush, as opposed to the interpreter's own errors
IsDatabaseError(error) == error = <<"null value violates not-null constraint">>

\* C5: when the interpreter raises, the step's StepExecution is FAILED with
\* the error text and is the last one of the run, the Execution is FAILED
\* with the same text (never COMPLETED), and for an error of the interpreter
\* itself this is what the database records.
C5_FailureStopsRun ==
    \A i \in 1..Len(step_executions) :
        step_executions[i].status = "FAILED" =>
            /\ pc = "done"
            /\ i = Len(step_executions)
            /\ step_executions[i].error # NoError
            /\ execution.status = "FAILED"
            /\ execution.error = step_executions[i].error
            /\ ~IsDatabaseError(execution.error) => RunRecorded

C5_Witness ==
    /\ pc = "done"
    /\ Len(step_executions) = 2
    /\ step_executions[2].status = "FAILED"
    /\ step_executions[2].error = <<"Unsupported action type", "HTTP_REQUEST">>
    /\ queue # <<>>
    /\ committed.executions # <<>>
    /\ committed.executions[1].status = "FAILED"

\* C6: every run that created an Execution row ends with that row and its
\* StepExecution rows, in their final status, in the committed database.
C6_EveryRunIsRecorded ==
    (pc = "done" /\ execution # NoExecution) => RunRecorded

\* C7 as stated: from the first step on, and after a crash between two steps,
\* other sessions can read the RUNNING Execution.
C7_RunningExecutionObservable ==
    pc \in {"running", "crashed"} =>
        /\ Len(committed.executions) = 1
        /\ committed.executions[1].status = "RUNNING"

\* C7 amended: before the first step starts the RUNNING Execution is flushed
\* into the run's own transaction, where the run's session reads it, but it is
\* not committed: while the run is in progress, and after a crash between two
\* steps, the committed database holds nothing of the run.
C7_RunningExecutionFlushedOnly ==
    /\ pc = "running" =>
          /\ execution.status = "RUNNING"
          /\ tx.executions = <<execution>>
          /\ committed = EmptyDb
    /\ pc = "crashed" => committed = EmptyDb

C7_Witness ==
    /\ pc = "crashed"
    /\ DOMAIN execution_context.steps # {}
    /\ queue # <<>>

IsCreateResult(result) == Has(result, "created_resource_type")

IsBulkUpdateResult(result) == Has(result, "updated_ids")

\* does the bulk update of orders by client, fired by TriggerEvent, select the row
SelectedByBulkUpdate(row) ==
    /\ row.resource_type = "order"
    /\ row.client_id = ParseUuid(TriggerEvent.resource_id)
    /\ row.company_id = CompanyId

\* C8: while the run is between steps nothing of it is committed, every write
\* of a finished step is in the run's own transaction, and a later bulk update
\* of the run selects the rows an earlier step of the run created.
C8_WritesVisibleNotCommitted ==
    /\ pc = "running" =>
          /\ committed = EmptyDb
          /\ tx.rows = entities
    /\ pc \in {"running", "done"} =>
          \A i \in 1..Len(step_executions) :
              (step_executions[i].status = "COMPLETED"
                  /\ IsCreateResult(step_executions[i].result)) =>
                  LET resource_id == step_executions[i].result.resource_id
                  IN /\ ParseUuid(resource_id) \in DOMAIN entities
                     /\ pc = "running" => ParseUuid(resource_id) \in DOMAIN tx.rows
                     /\ \A j \in (i + 1)..Len(step_executions) :
                           (/\ step_executions[j].status = "COMPLETED"
                            /\ IsBulkUpdateResult(step_executions[j].result)
                            /\ SelectedByBulkUpdate(entities[ParseUuid(resource_id)]))
                               => resource_id \in step_executions[j].result.updated_ids

C8_Witness ==
    /\ pc = "running"
    /\ Len(step_executions) = 2
    /\ IsCreateResult(step_executions[1].result)
    /\ IsBulkUpdateResult(step_executions[2].result)
    /\ step_executions[2].result.updated_count = 2
    /\ queue # <<>>

Terminal(record) == record.status \in {"COMPLETED", "FAILED"}

ProducedStatuses == {"RUNNING", "COMPLETED", "FAILED"}

StatusesOf(db) ==
    {db.executions[i].status : i \in 1..Len(db.executions)}
        \cup {db.step_executions[i].status : i \in 1..Len(db.step_executions)}

\* C9: every status the engine writes is RUNNING, COMPLETED or FAILED (never
\* SKIPPED); a record of the run that is COMPLETED or FAILED is not changed by
\* any later step of the engine, and a RUNNING one only becomes COMPLETED or
\* FAILED; what is committed is never changed again.
C9_StatusMonotonic ==
    [][/\ StatusesOf(Pending(Sess))' \subseteq ProducedStatuses
       /\ StatusesOf(tx)' \subseteq ProducedStatuses
       /\ StatusesOf(committed)' \subseteq ProducedStatuses
       /\ (execution # NoExecution /\ pc' # "crashed") =>
             /\ execution' # NoExecution
             /\ Terminal(execution) => execution' = execution
       /\ pc' # "crashed" =>
             \A i \in 1..Len(step_executions) :
                 /\ i <= Len(step_executions')
                 /\ step_executions'[i].step_id = step_executions[i].step_id
                 /\ Terminal(step_executions[i]) =>
                        step_executions'[i] = step_executions[i]
       /\ committed.executions # <<>> =>
             /\ committed'.executions = committed.executions
             /\ committed'.step_executions = committed.step_executions
      ]_vars

C9_Witness ==
    /\ pc = "done"
    /\ Len(step_executions) = 3
    /\ step_executions[1].status = "COMPLETED"
    /\ step_executions[2].status = "COMPLETED"
    /\ step_executions[3].status = "FAILED"
    /\ execution.status = "FAILED"
    /\ committed.executions = <<execution>>

\* C26: when a run failed at a step, the FAILED records and the rows the
\* earlier steps of the run wrote are in the committed database: the run is
\* not rolled back to the state before it.
C26_FailedRunKeepsEarlierWrites ==
    (pc = "done" /\ execution # NoExecution /\ execution.status = "FAILED") =>
        /\ RunRecorded
        /\ committed.rows = entities
        /\ \A i \in 1..Len(step_executions) :
              (step_executions[i].status = "COMPLETED"
                  /\ IsCreateResult(step_executions[i].result)) =>
                  ParseUuid(step_executions[i].result.resource_id)
                      \in DOMAIN committed.rows

FailedAt(records) == {i \in 1..Len(records) : records[i].status = "FAILED"}

Stamped(record) == record.completed_at <=> Terminal(record)

\* the Execution rows of db and its StepExecution rows agree
RecordsConsistent(db) ==
    /\ \A i \in 1..Len(db.step_executions) :
          /\ Stamped(db.step_executions[i])
          /\ db.step_executions[i].step_id \in StepSet
    /\ \A i \in 1..Len(db.executions) :
          /\ Stamped(db.executions[i])
          /\ db.executions[i].workflow_id = workflow.id
          /\ db.executions[i].status = "COMPLETED" =>
                \A j \in 1..Len(db.step_executions) :
                    db.step_executions[j].status = "COMPLETED"
          /\ db.executions[i].status = "FAILED" =>
                /\ FailedAt(db.step_executions) = {Len(db.step_executions)}
                /\ db.step_executions[Len(db.step_executions)].error
                       = db.executions[i].error

\* C25: in the objects of the run, in what it has flushed and in what is
\* committed, a COMPLETED Execution has only COMPLETED StepExecutions, a
\* FAILED Execution has exactly one FAILED StepExecution, the last one made,
\* carrying the Execution's error text, completed_at is set exactly on the
\* COMPLETED and FAILED records, and every StepExecution is of a step of the
\* Execution's workflow.
C25_TerminalRecordsConsistent ==
    /\ RecordsConsistent(Pending(Sess))
    /\ RecordsConsistent(tx)
    /\ RecordsConsistent(committed)

C25_Witness ==
    /\ pc = "done"
    /\ Len(committed.executions) = 1
    /\ committed.executions[1].status = "FAILED"
    /\ Len(committed.step_executions) = 3
    /\ FailedAt(committed.step_executions) = {3}
    /\ committed.step_executions[3].error = committed.executions[1].error
    /\ committed.step_executions[3].error # NoError
    /\ Len(workflow.steps) = 3

C25_WitnessCompleted ==
    /\ pc = "done"
    /\ Len(committed.executions) = 1
    /\ committed.executions[1].status = "COMPLETED"
    /\ committed.executions[1].completed_at
    /\ Len(committed.step_executions) = 2
    /\ Len(workflow.steps) = 3

(***************************************************************************)
(* Properties of the trigger matcher (checked under SpecMatch)             *)
(***************************************************************************)
\* the workflows the event should fire
ExpectedMatches ==
    {w.id : w \in {w \in Range(tables.workflows) :
        /\ w.company_id = call.company_id
        /\ w.is_active
        /\ \E trigger \in Range(tables.triggers) :
              /\ trigger.workflow_id = w.id
              /\ trigger.resource_type = call.resource_type
              /\ trigger.event_type = call.event_type
              /\ _matches_field_conditions(trigger.field_conditions,
                                           call.before_data, call.after_data)}}

\* C10: find_matching_workflows returns exactly the active workflows of the
\* company owning a trigger of the event's resource and event type whose
\* conditions hold, each of them once.
C10_MatchExact ==
    call.made =>
        /\ {matched[i].id : i \in 1..Len(matched)} = ExpectedMatches
        /\ \A i, j \in 1..Len(matched) : matched[i].id = matched[j].id => i = j

C10_Witness ==
    /\ call.made
    /\ Len(tables.triggers) = 2
    /\ tables.triggers[1].workflow_id = "w1"
    /\ tables.triggers[2].workflow_id = "w1"
    /\ tables.triggers[1] # tables.triggers[2]
    /\ \A i \in 1..2 :
          /\ tables.triggers[i].resource_type = call.resource_type
          /\ tables.triggers[i].event_type = call.event_type
          /\ _matches_field_conditions(tables.triggers[i].field_conditions,
                                       call.before_data, call.after_data)
    /\ call.company_id = "c1"
    /\ Len(matched) = 1
    /\ matched[1].id = "w1"

C10_WitnessOtherCompany ==
    /\ call.made
    /\ call.company_id = "c1"
    /\ matched = <<>>
    /\ \E trigger \in Range(tables.triggers) :
          /\ trigger.workflow_id \in {"w2", "w3"}
          /\ trigger.resource_type = call.resource_type
          /\ trigger.event_type = call.event_type
          /\ trigger.field_conditions = PyNone

(***************************************************************************)
(* SpecCond: _matches_field_conditions on bounded conditions and snapshots *)
(***************************************************************************)
\* the variables of the run and of the matcher, at rest
RunIdle ==
    /\ workflow = [id |-> "w1", company_id |-> CompanyId, steps |-> <<>>, edges |-> <<>>]
    /\ pc = "idle"
    /\ execution = NoExecution
    /\ step_executions = <<>>
    /\ in_degree = EmptyDict
    /\ adjacency = EmptyDict
    /\ queue = <<>>
    /\ execution_context = [trigger |-> TriggerEvent, steps |-> EmptyDict]
    /\ entities = InitialRows
    /\ tx = EmptyDb
    /\ tx_state = "closed"
    /\ committed = EmptyDb

MatchIdle ==
    /\ tables = [workflows |-> WorkflowRows, triggers |-> <<>>]
    /\ call = NotCalled
    /\ matched = <<>>

\* a key the dict does not carry
Absent == [t |-> "absent"]

\* the dict {field: ..., operator: ..., value: ...} without its absent keys
ConditionDict(field, operator, value) ==
    LET full == [field |-> field, operator |-> operator, value |-> value]
    IN PyDict([k \in {k \in DOMAIN full : full[k] # Absent} |-> full[k]])

CondFields == {Absent, PyNone, PyStr(""), PyStr("status")}

CondOperators ==
    {Absent, PyStr(""), PyStr("changed"), PyStr("changed_to"), PyStr("changed_from"),
     PyStr("equals"), PyStr("bogus")}

CondValues ==
    {Absent, PyStr("CANCELLED"), PyStr("None"), PyStr("1"), PyVal("int", "1")}

\* WorkflowTrigger.field_conditions: NULL or a JSON object
Conditions ==
    {PyNone} \cup {ConditionDict(f, o, v) :
                      f \in CondFields, o \in CondOperators, v \in CondValues}

\* before_data and after_data: None, the empty dict, or a dict of columns
CondSnapshots ==
    {PyNone,
     PyDict(EmptyDict),
     PyDict([status |-> PyStr("ACTIVE")]),
     PyDict([status |-> PyStr("CANCELLED")]),
     PyDict([status |-> PyNone]),
     PyDict([status |-> PyVal("int", "1")]),
     PyDict([name |-> PyStr("Ann")])}

InitCond ==
    /\ cond_call \in [made : {FALSE}, conditions : Conditions,
                      before_data : CondSnapshots, after_data : CondSnapshots]
    /\ cond_result = FALSE
    /\ RunIdle
    /\ MatchIdle
    /\ StepIdle
    /\ AsyncIdle
    /\ CycleIdle

MatchesFieldConditions ==
    /\ ~cond_call.made
    /\ cond_call' = [cond_call EXCEPT !.made = TRUE]
    /\ cond_result' = _matches_field_conditions(cond_call.conditions,
                                                cond_call.before_data,
                                                cond_call.after_data)

NextCond == MatchesFieldConditions /\ UNCHANGED <<runVars, matchVars, stepVars, asyncVars, cycleVars>>

SpecCond == InitCond /\ [][NextCond]_vars

(***************************************************************************)
(* Properties of condition evaluation (checked under SpecCond)             *)
(***************************************************************************)
\* the condition names a field and carries the operator
HasOperator(name) ==
    /\ cond_call.conditions # PyNone
    /\ Has(cond_call.conditions.d, "field")
    /\ cond_call.conditions.d.field.t = "str"
    /\ cond_call.conditions.d.field.v # ""
    /\ Has(cond_call.conditions.d, "operator")
    /\ cond_call.conditions.d.operator = PyStr(name)

CondField == cond_call.conditions.d.field.v

\* the string form of the configured value (None when the key is missing)
CondValueText ==
    IF Has(cond_call.conditions.d, "value") THEN Str(cond_call.conditions.d.value)
    ELSE "None"

\* the string form of snapshot[field] (None when the field is missing)
FieldText(snapshot) ==
    IF Has(snapshot.d, CondField) THEN Str(snapshot.d[CondField]) ELSE "None"

KnownOperators == {"changed", "changed_to", "changed_from", "equals"}

\* C11: conditions that are null, that lack `field` or `operator`, or whose
\* operator is a string other than the four known ones match every pair of
\* snapshots.
C11_FailOpen ==
    cond_call.made =>
        /\ cond_call.conditions = PyNone => cond_result
        /\ (/\ cond_call.conditions # PyNone
            /\ \/ ~Has(cond_call.conditions.d, "field")
               \/ ~Has(cond_call.conditions.d, "operator")) => cond_result
        /\ (/\ cond_call.conditions # PyNone
            /\ Has(cond_call.conditions.d, "operator")
            /\ cond_call.conditions.d.operator.t = "str"
            /\ cond_call.conditions.d.operator.v \notin KnownOperators) => cond_result

C11_Witness ==
    /\ cond_call.made
    /\ HasOperator("bogus")
    /\ cond_call.before_data = PyDict([status |-> PyStr("ACTIVE")])
    /\ cond_call.after_data = PyNone
    /\ cond_result

\* C12: a changed_to condition matches only when `after` is present, carries
\* the field, and the string form of after[field] equals the string form of
\* the configured value; it matches neither an absent `after` nor an `after`
\* that lacks the field.
C12_ChangedToNeedsField ==
    (cond_call.made /\ HasOperator("changed_to")) =>
        /\ cond_result =>
              /\ cond_call.after_data # PyNone
              /\ FieldText(cond_call.after_data) = CondValueText
        /\ cond_call.after_data = PyNone => ~cond_result
        /\ (cond_call.after_data # PyNone /\ ~Has(cond_call.after_data.d, CondField))
              => ~cond_result

\* None, or a dict without any key
AbsentOrEmpty(snapshot) ==
    \/ snapshot = PyNone
    \/ DOMAIN snapshot.d = {}

\* C13 as stated: `changed` is true when a snapshot is None, and when both are
\* given it is true exactly when the string forms of the field differ.
C13_ChangedComparesWhenBothGiven ==
    (cond_call.made /\ HasOperator("changed")) =>
        IF cond_call.before_data = PyNone \/ cond_call.after_data = PyNone
        THEN cond_result
        ELSE cond_result <=>
                 FieldText(cond_call.before_data) # FieldText(cond_call.after_data)

\* C13 amended: `changed` is true when a snapshot is None or the empty dict,
\* and when both snapshots are non-empty it is true exactly when the string
\* forms of before[field] and after[field] differ (false when the field is
\* missing from both).
C13_ChangedComparesWhenBothNonEmpty ==
    (cond_call.made /\ HasOperator("changed")) =>
        IF AbsentOrEmpty(cond_call.before_data) \/ AbsentOrEmpty(cond_call.after_data)
        THEN cond_result
        ELSE cond_result <=>
                 FieldText(cond_call.before_data) # FieldText(cond_call.after_data)

C13_Witness ==
    /\ cond_call.made
    /\ HasOperator("changed")
    /\ cond_call.before_data = PyDict([name |-> PyStr("Ann")])
    /\ cond_call.after_data = PyDict([name |-> PyStr("Ann")])
    /\ ~cond_result

C13_WitnessEmptySnapshot ==
    /\ cond_call.made
    /\ HasOperator("changed")
    /\ cond_call.before_data = PyDict(EmptyDict)
    /\ cond_call.after_data = PyDict(EmptyDict)
    /\ cond_result

(***************************************************************************)
(* SpecStep: one call of execute_step on bounded rows and configurations   *)
(***************************************************************************)
\* the two clients, and the orders the order table may hold
StepOrderPool ==
    ("r3" :> OrderRow("r3", "c1", "ACTIVE", "r1")) @@
    ("r4" :> OrderRow("r4", "c2", "ACTIVE", "r1")) @@
    ("r5" :> OrderRow("r5", "c1", "PENDING", "r1")) @@
    ("r6" :> OrderRow("r6", "c1", "ACTIVE", "r2"))

StepRowSets ==
    {("r1" :> ClientRow("r1", "c1", "Ann", "111")) @@
     ("r2" :> ClientRow("r2", "c2", "Bob", "222")) @@
     [id \in ids |-> StepOrderPool[id]] : ids \in SUBSET DOMAIN StepOrderPool}

\* ids of the resource whose change fired the workflow ("r9": no row)
StepTriggerIds == {"r1", "r2", "r9"}

\* the steps execute_step is called with
StepCallActions ==
    StepActions \cup
    {[action_type |-> "UPDATE_FIELD",
      action_config |-> [resource_type |-> "order", resource_id_source |-> "match_field",
                         match_field |-> "client_id",
                         updates |-> [status |-> "CANCELLED", bogus |-> "x"]]],
     [action_type |-> "UPDATE_FIELD",
      action_config |-> [resource_type |-> "client", resource_id_source |-> "match_field",
                         match_field |-> "id",
                         updates |-> [phone |-> "555"]]],
     [action_type |-> "UPDATE_FIELD",
      action_config |-> [resource_type |-> "order", resource_id_source |-> "match_field",
                         match_field |-> "client_id"]],
     [action_type |-> "UPDATE_FIELD",
      action_config |-> [resource_type |-> "order", resource_id_source |-> "match_field",
                         match_field |-> "client_id",
                         updates |-> [status |-> Null]]],
     [action_type |-> "UPDATE_FIELD",
      action_config |-> [resource_type |-> "client", updates |-> [phone |-> "555"]]],
     [action_type |-> "UPDATE_FIELD",
      action_config |-> [resource_type |-> "client", resource_id_source |-> "custom",
                         resource_id |-> EmptyText,
                         updates |-> [phone |-> "555"]]],
     [action_type |-> "UPDATE_FIELD",
      action_config |-> [resource_type |-> "order", resource_id_source |-> "custom",
                         resource_id |-> UuidStr("r3"),
                         updates |-> [status |-> "CANCELLED", bogus |-> "x"]]],
     [action_type |-> "UPDATE_FIELD",
      action_config |-> [resource_type |-> "order", resource_id_source |-> "trigger",
                         updates |-> [status |-> "CANCELLED"]]],
     [action_type |-> "UPDATE_FIELD",
      action_config |-> [resource_type |-> "client", resource_id_source |-> "trigger",
                         updates |-> [name |-> Null]]],
     [action_type |-> "UPDATE_FIELD",
      action_config |-> [resource_type |-> "client", resource_id_source |-> "trigger",
                         updates |-> [company_id |-> "c2", phone |-> "555"]]],
     [action_type |-> "UPDATE_FIELD",
      action_config |-> [resource_type |-> "order", resource_id_source |-> "match_field",
                         match_field |-> "client_id",
                         updates |-> [company_id |-> "c2"]]],
     [action_type |-> "CREATE_ENTITY",
      action_config |-> [resource_type |-> "client",
                         data |-> [name |-> "Eve", company_id |-> "c2"]]],
     [action_type |-> "CREATE_ENTITY",
      action_config |-> [resource_type |-> "client",
                         data |-> [id |-> "r2", name |-> "Eve", company_id |-> "c2"]]],
     [action_type |-> "CREATE_ENTITY",
      action_config |-> [resource_type |-> "order"]],
     [action_type |-> "CREATE_ENTITY",
      action_config |-> [resource_type |-> "order",
                         data |-> [status |-> "ACTIVE", bogus |-> "x"]]]}

InitStep ==
    /\ entities \in StepRowSets
    /\ tx = [executions |-> <<>>, step_executions |-> <<>>, rows |-> entities]
    /\ committed = tx
    /\ tx_state = "active"
    /\ \E id \in StepTriggerIds :
          execution_context =
              [trigger |-> [resource_type |-> "client", event_type |-> "UPDATED",
                            resource_id |-> UuidStr(id)],
               steps |-> EmptyDict]
    /\ step_call \in [made : {FALSE}, step : StepCallActions, company_id : Companies]
    /\ step_result = NotCalled
    /\ workflow = [id |-> "w1", company_id |-> CompanyId, steps |-> <<>>, edges |-> <<>>]
    /\ pc = "idle"
    /\ execution = NoExecution
    /\ step_executions = <<>>
    /\ in_degree = EmptyDict
    /\ adjacency = EmptyDict
    /\ queue = <<>>
    /\ MatchIdle
    /\ CondIdle
    /\ AsyncIdle
    /\ CycleIdle

\* execute_step called once on the open session
ExecuteStep ==
    /\ ~step_call.made
    /\ LET r == execute_step(Sess, step_call.step, execution_context, step_call.company_id)
       IN /\ SetSess(r.S)
          /\ step_result' = [made |-> TRUE, raised |-> r.raised, error |-> r.error,
                             result |-> r.result]
    /\ step_call' = [step_call EXCEPT !.made = TRUE]
    /\ UNCHANGED <<workflow, pc, in_degree, adjacency, queue, execution_context>>

NextStep == ExecuteStep /\ UNCHANGED <<matchVars, condVars, asyncVars, cycleVars>>

SpecStep == InitStep /\ [][NextStep]_vars

(***************************************************************************)
(* Properties of the step interpreter (checked under SpecStep)             *)
(***************************************************************************)
StepConfig == step_call.step.action_config

\* the rows before the call (the call commits nothing)
RowsBefore == committed.rows

\* the call is an UPDATE_FIELD in match_field mode on a known type and column
IsBulkUpdateCall ==
    /\ step_call.made
    /\ step_call.step.action_type = "UPDATE_FIELD"
    /\ Has(StepConfig, "resource_type")
    /\ StepConfig.resource_type \in ModelMap
    /\ Has(StepConfig, "resource_id_source")
    /\ StepConfig.resource_id_source = "match_field"
    /\ Has(StepConfig, "match_field")
    /\ StepConfig.match_field \in {"id", "client_id"}

\* the rows of the type, in the company, whose match column is the trigger's id
BulkTargets ==
    {id \in DOMAIN RowsBefore :
        /\ RowsBefore[id].resource_type = StepConfig.resource_type
        /\ RowsBefore[id].company_id = step_call.company_id
        /\ UuidStr(RowsBefore[id][StepConfig.match_field])
               = execution_context.trigger.resource_id}

StepUpdates == IF Has(StepConfig, "updates") THEN StepConfig.updates ELSE EmptyDict

\* the row carries every update of a column it has, and is otherwise as before
UpdatedFrom(row, before) ==
    \A c \in DOMAIN before :
        row[c] = IF c \in DOMAIN StepUpdates /\ c # "resource_type"
                 THEN StepUpdates[c] ELSE before[c]

\* C20: a successful match_field update has set the updates on exactly the
\* rows of the type that are in the run's company and whose match column is
\* the triggering resource id, left every other row (other companies
\* included) as it was, reports their number as updated_count and their ids
\* as updated_ids, and succeeds with updated_count 0 when there is no such row.
C20_BulkUpdateExactRows ==
    IsBulkUpdateCall =>
        /\ BulkTargets = {} => step_result.raised = ""
        /\ step_result.raised = "" =>
              /\ DOMAIN entities = DOMAIN RowsBefore
              /\ \A id \in BulkTargets : UpdatedFrom(entities[id], RowsBefore[id])
              /\ \A id \in DOMAIN RowsBefore \ BulkTargets : entities[id] = RowsBefore[id]
              /\ tx.rows = entities
              /\ step_result.result.updated_count = Cardinality(BulkTargets)
              /\ step_result.result.updated_ids = {UuidStr(id) : id \in BulkTargets}
              /\ Cardinality(step_result.result.updated_ids)
                     = step_result.result.updated_count

C20_Witness ==
    /\ IsBulkUpdateCall
    /\ step_result.raised = ""
    /\ step_result.result.updated_count = 2
    /\ \E id \in DOMAIN RowsBefore \ BulkTargets :
          /\ RowsBefore[id].company_id # step_call.company_id
          /\ RowsBefore[id].resource_type = StepConfig.resource_type
          /\ UuidStr(RowsBefore[id][StepConfig.match_field])
                 = execution_context.trigger.resource_id
    /\ \A id \in BulkTargets : entities[id].status = "CANCELLED"

C20_WitnessNoMatch ==
    /\ IsBulkUpdateCall
    /\ step_result.raised = ""
    /\ step_result.result.updated_count = 0
    /\ \E id \in DOMAIN RowsBefore : RowsBefore[id].resource_type = StepConfig.resource_type
    /\ entities = RowsBefore

IsCreateCall ==
    /\ step_call.made
    /\ step_call.step.action_type = "CREATE_ENTITY"

\* the rows the call added to the session, and to its transaction
CreatedRows == DOMAIN entities \ DOMAIN RowsBefore

FlushedNewRows == DOMAIN tx.rows \ DOMAIN RowsBefore

ConfiguredData == IF Has(StepConfig, "data") THEN StepConfig.data ELSE EmptyDict

\* C21: whatever company_id (or id) the configured data carries, every row a
\* CREATE_ENTITY step adds belongs to the company of the run, a successful
\* step adds exactly one row, of the configured type, with the configured
\* values in its other columns, and no existing row is changed.
C21_CreateInRunCompany ==
    IsCreateCall =>
        /\ \A id \in CreatedRows : entities[id].company_id = step_call.company_id
        /\ \A id \in FlushedNewRows : tx.rows[id].company_id = step_call.company_id
        /\ \A id \in DOMAIN RowsBefore :
              /\ id \in DOMAIN entities
              /\ entities[id] = RowsBefore[id]
              /\ tx.rows[id] = RowsBefore[id]
        /\ step_result.raised = "" =>
              /\ CreatedRows = {ParseUuid(step_result.result.resource_id)}
              /\ FlushedNewRows = CreatedRows
              /\ \A id \in CreatedRows :
                    /\ entities[id].resource_type = StepConfig.resource_type
                    /\ \A c \in DOMAIN ConfiguredData \ {"company_id"} :
                          entities[id][c] = ConfiguredData[c]

C21_Witness ==
    /\ IsCreateCall
    /\ step_result.raised = ""
    /\ Has(ConfiguredData, "company_id")
    /\ ConfiguredData.company_id = "c2"
    /\ step_call.company_id = "c1"
    /\ \E id \in FlushedNewRows : tx.rows[id].company_id = "c1"

C21_WitnessExistingId ==
    /\ IsCreateCall
    /\ Has(ConfiguredData, "id")
    /\ ConfiguredData.id \in DOMAIN RowsBefore
    /\ RowsBefore[ConfiguredData.id].company_id # step_call.company_id
    /\ step_result.raised = "IntegrityError"
    /\ CreatedRows = {}

ResourceIdSource ==
    IF Has(StepConfig, "resource_id_source") THEN StepConfig.resource_id_source
    ELSE "trigger"

\* the call is an UPDATE_FIELD in single-record mode on a known type
IsSingleUpdateCall ==
    /\ step_call.made
    /\ step_call.step.action_type = "UPDATE_FIELD"
    /\ Has(StepConfig, "resource_type")
    /\ StepConfig.resource_type \in ModelMap
    /\ ResourceIdSource \in {"trigger", "custom"}

\* the id the step is aimed at (EmptyText: none)
SingleTargetId ==
    IF ResourceIdSource = "trigger" THEN execution_context.trigger.resource_id
    ELSE IF Has(StepConfig, "resource_id") THEN StepConfig.resource_id
    ELSE EmptyText

\* the rows of the type, in the company, with that id
SingleTargets ==
    IF SingleTargetId = EmptyText THEN {}
    ELSE {id \in DOMAIN RowsBefore :
             /\ UuidStr(id) = SingleTargetId
             /\ RowsBefore[id].resource_type = StepConfig.resource_type
             /\ RowsBefore[id].company_id = step_call.company_id}

\* C22: a single-record update (trigger or custom) succeeds only on the one
\* row of the configured type that has the resolved id and is in the run's
\* company, sets the updates on that row and leaves every other row as it
\* was; with an empty id, with no such row, or with the row in another
\* company it raises and no row is modified.
C22_SingleUpdateOneRow ==
    IsSingleUpdateCall =>
        /\ Cardinality(SingleTargets) <= 1
        /\ DOMAIN entities = DOMAIN RowsBefore
        /\ \A id \in DOMAIN RowsBefore \ SingleTargets :
              /\ entities[id] = RowsBefore[id]
              /\ tx.rows[id] = RowsBefore[id]
        /\ SingleTargets = {} => step_result.raised = "ValueError"
        /\ step_result.raised = "" =>
              /\ SingleTargets # {}
              /\ \A id \in SingleTargets : UpdatedFrom(entities[id], RowsBefore[id])
              /\ tx.rows = entities
              /\ step_result.result.resource_id = SingleTargetId

C22_Witness ==
    /\ IsSingleUpdateCall
    /\ ResourceIdSource = "custom"
    /\ SingleTargetId # execution_context.trigger.resource_id
    /\ step_result.raised = ""
    /\ \E id \in SingleTargets : entities[id] # RowsBefore[id]

C22_WitnessOtherCompany ==
    /\ IsSingleUpdateCall
    /\ SingleTargetId # EmptyText
    /\ \E id \in DOMAIN RowsBefore :
          /\ UuidStr(id) = SingleTargetId
          /\ RowsBefore[id].resource_type = StepConfig.resource_type
          /\ RowsBefore[id].company_id # step_call.company_id
    /\ step_result.raised = "ValueError"
    /\ entities = RowsBefore

C22_WitnessEmptyId ==
    /\ IsSingleUpdateCall
    /\ Has(StepConfig, "resource_id")
    /\ StepConfig.resource_id = EmptyText
    /\ step_result.raised = "ValueError"
    /\ entities = RowsBefore

IsUpdateCall ==
    /\ step_call.made
    /\ step_call.step.action_type = "UPDATE_FIELD"

\* C27: after an UPDATE_FIELD step, whatever keys its updates carry, every
\* row that existed before the step still has the company_id it had, in the
\* session's objects and in what the step flushed.
C27_NoRowChangesTenant ==
    IsUpdateCall =>
        \A id \in DOMAIN RowsBefore :
            /\ id \in DOMAIN entities
            /\ entities[id].company_id = RowsBefore[id].company_id
            /\ tx.rows[id].company_id = RowsBefore[id].company_id

(***************************************************************************)
(* SpecAsync: check_workflow_triggers and the background runs              *)
(*                                                                         *)
(* One asyncio event loop.  Neither check_workflow_triggers nor            *)
(* _execute_workflow_async awaits anything, so a call of the first is one  *)
(* step and a background task, once the loop starts it, runs to its end    *)
(* before anything else does (current names it meanwhile).  Tasks start in *)
(* the order they were created.                                            *)
(*                                                                         *)
(* Context 0 stands for the contexts of request handlers, context t for    *)
(* the context of task t.                                                  *)
(***************************************************************************)
MAX_WORKFLOW_DEPTH == 3

MaxTasks == 4

MaxRequests == 2

RequestContext == 0

\* the request's session is the first of sessions
RequestSession == 1

NoSession == 0

\* the workflow table with the steps and edges of each workflow:
\*   w1 creates an order, w3 creates a client without a name (the flush
\*   raises), w4 carries an HTTP_REQUEST step (the interpreter raises)
AsyncWorkflowRows ==
    <<[id |-> "w1", company_id |-> "c1", is_active |-> TRUE,
       steps |-> <<[id |-> 1, action_type |-> "CREATE_ENTITY",
                    action_config |-> [resource_type |-> "order",
                                       data |-> [status |-> "ACTIVE",
                                                 client_id |-> "r1"]]]>>,
       edges |-> <<>>],
      [id |-> "w2", company_id |-> "c1", is_active |-> FALSE,
       steps |-> <<>>, edges |-> <<>>],
      [id |-> "w3", company_id |-> "c1", is_active |-> TRUE,
       steps |-> <<[id |-> 1, action_type |-> "CREATE_ENTITY",
                    action_config |-> [resource_type |-> "client",
                                       data |-> [phone |-> "999"]]]>>,
       edges |-> <<>>],
      [id |-> "w4", company_id |-> "c1", is_active |-> TRUE,
       steps |-> <<[id |-> 1, action_type |-> "HTTP_REQUEST",
                    action_config |-> [url |-> "http://example.test"]]>>,
       edges |-> <<>>]>>

AsyncTriggerRows ==
    <<[workflow_id |-> "w1", resource_type |-> "order", event_type |-> "CREATED",
       field_conditions |-> PyNone],
      [workflow_id |-> "w1", resource_type |-> "client", event_type |-> "UPDATED",
       field_conditions |-> PyNone],
      [workflow_id |-> "w3", resource_type |-> "client", event_type |-> "UPDATED",
       field_conditions |-> PyNone],
      [workflow_id |-> "w2", resource_type |-> "client", event_type |-> "UPDATED",
       field_conditions |-> PyNone],
      [workflow_id |-> "w4", resource_type |-> "client", event_type |-> "DELETED",
       field_conditions |-> PyNone]>>

\* the change events request handlers report
RequestEvents ==
    {[resource_type |-> "client", event_type |-> "UPDATED", resource_id |-> "r1",
      before_data |-> PyDict([name |-> PyStr("Ann")]),
      after_data |-> PyDict([name |-> PyStr("Anna")])],
     [resource_type |-> "client", event_type |-> "DELETED", resource_id |-> "r1",
      before_data |-> PyDict([name |-> PyStr("Ann")]), after_data |-> PyNone],
     [resource_type |-> "order", event_type |-> "CREATED", resource_id |-> "r3",
      before_data |-> PyNone, after_data |-> PyDict([status |-> PyStr("ACTIVE")])]}

\* the change event for an order a run created
OrderCreated(id) ==
    [resource_type |-> "order", event_type |-> "CREATED", resource_id |-> id,
     before_data |-> PyNone, after_data |-> PyDict([status |-> PyStr("ACTIVE")])]

\* what can go wrong inside check_workflow_triggers: the query of
\* find_matching_workflows, serialize_for_audit, asyncio.create_task
Faults == {"none", "query", "serialize", "create_task"}

\* the engine's view of the process: tasks, contexts, sessions and database
World ==
    [tasks |-> tasks, depth_var |-> depth_var, sessions |-> sessions,
     committed |-> committed, tables |-> tables]

SetWorld(W) ==
    /\ tasks' = W.tasks
    /\ depth_var' = W.depth_var
    /\ sessions' = W.sessions
    /\ committed' = W.committed
    /\ tables' = W.tables

\* ContextVar.get() and ContextVar.set() in context ctx
ContextGet(dv, ctx) == dv[ctx]

\* faulty variant: one counter shared by every context
ContextSet_Global(dv, ctx, value) == [c \in DOMAIN dv |-> value]

ContextSet(dv, ctx, value) == [dv EXCEPT ![ctx] = value]

\* a task runs in a copy of the context that created it
ContextCopy(dv, ctx, new) == (new :> dv[ctx]) @@ dv

\* faulty variant: the run works on the request's session
SessionLocal_Request(ss) == RequestSession

\* SessionLocal(): a session of its own
SessionLocal(ss) == Len(ss) + 1

\* session id is used by context user (and exists from then on)
UseSession(ss, id, user) ==
    IF id > Len(ss) THEN Append(ss, [state |-> "open", users |-> {user}])
    ELSE [ss EXCEPT ![id].users = @ \cup {user}]

CloseSession(ss, id, user) ==
    [UseSession(ss, id, user) EXCEPT ![id].state = "closed"]

\* the session's transaction: it starts from the committed rows and holds the
\* Execution and StepExecution rows of this run only
BeginSession(db) ==
    LET view == [executions |-> <<>>, step_executions |-> <<>>, rows |-> db.rows]
    IN [execution |-> NoExecution, step_executions |-> <<>>, entities |-> db.rows,
        tx |-> view, tx_state |-> "active", committed |-> view]

\* the database after the session's commits
MergeCommitted(db, S) ==
    [executions |-> db.executions \o S.committed.executions,
     step_executions |-> db.step_executions \o S.committed.step_executions,
     rows |-> S.committed.rows]

StepById(steps, step_id) == CHOOSE step \in Range(steps) : step.id = step_id

\* lines 285-314: the loop over the queue, to its end or to the first
\* exception; StepDone is the loop body after execute_step returned or raised r
RECURSIVE RunQueue(_, _, _, _, _, _, _)
RECURSIVE StepDone(_, _, _, _, _, _, _)
StepDone(r, steps, q, ind, adj, context, company_id) ==
    IF r.raised = ""
    THEN RunQueue([r.S EXCEPT !.step_executions[Len(r.S.step_executions)] =
                                  [@ EXCEPT !.status = "COMPLETED",
                                            !.result = r.result,
                                            !.completed_at = TRUE]],
                  steps,
                  ReduceInDegree(adj[Head(q)], ind, Tail(q)).queue,
                  ReduceInDegree(adj[Head(q)], ind, Tail(q)).in_degree,
                  adj,
                  [context EXCEPT !.steps = (Head(q) :> r.result) @@ @],
                  company_id)
    ELSE [S |-> [r.S EXCEPT !.step_executions[Len(r.S.step_executions)] =
                                [@ EXCEPT !.status = "FAILED",
                                          !.error = r.error,
                                          !.completed_at = TRUE]],
          raised |-> r.raised, error |-> r.error]

RunQueue(S, steps, q, ind, adj, context, company_id) ==
    IF q = <<>> THEN [S |-> S, raised |-> "", error |-> NoError]
    ELSE StepDone(execute_step(
                      db_flush([S EXCEPT !.step_executions =
                                             Append(@, NewStepExecution(Head(q)))]),
                      StepById(steps, Head(q)), context, company_id),
                  steps, q, ind, adj, context, company_id)

\* line 325: db.commit() and what leaves execute_workflow
CommitRun(S) ==
    IF CommitRaises(S)
    THEN [S |-> db_flush(S), raised |-> "PendingRollbackError"]
    ELSE [S |-> db_commit(S), raised |-> ""]

\* lines 316-325: the end of the walk
WalkDone(walk) ==
    IF walk.raised = ""
    THEN CommitRun([walk.S EXCEPT !.execution.status = "COMPLETED",
                                  !.execution.completed_at = TRUE])
    ELSE CommitRun([walk.S EXCEPT !.execution.status = "FAILED",
                                  !.execution.error = walk.error,
                                  !.execution.completed_at = TRUE])

\* lines 263-282: the graph and the first queue, then the walk
WalkGraph(S, wf, step_ids, g, trigger_event, company_id) ==
    WalkDone(RunQueue(S, wf.steps, InitialQueue(step_ids, g.in_degree),
                      g.in_degree, g.adjacency,
                      [trigger |-> trigger_event, steps |-> EmptyDict], company_id))

\* lines 254-282 on the flushed Execution row
ExecutionFlushed(S, wf, trigger_event, company_id) ==
    IF Len(wf.steps) = 0
    THEN CommitRun([S EXCEPT !.execution.status = "COMPLETED",
                             !.execution.completed_at = TRUE])
    ELSE WalkGraph(S, wf, [i \in 1..Len(wf.steps) |-> wf.steps[i].id],
                   BuildGraph(wf.edges,
                              [sid \in {wf.steps[i].id : i \in 1..Len(wf.steps)} |-> 0],
                              [sid \in {wf.steps[i].id : i \in 1..Len(wf.steps)} |-> <<>>]),
                   trigger_event, company_id)

\* execute_workflow as one call: the session after it and the exception that
\* left it ("" for none; only db.commit() of line 325 can raise out of it)
execute_workflow(S, wf, trigger_event, company_id) ==
    ExecutionFlushed(db_flush([S EXCEPT !.execution = NewExecution(wf.id)]),
                     wf, trigger_event, company_id)

\* the coroutine object _execute_workflow_async(workflow_id=..., depth=...)
\* wrapped in a task by context ctx
NewTask(coro, ctx) ==
    [workflow_id |-> coro.workflow_id, trigger_event |-> coro.trigger_event,
     company_id |-> coro.company_id, depth |-> coro.depth, parent |-> ctx,
     state |-> "scheduled", db |-> NoSession, outcome |-> "", escaped |-> "",
     executions |-> <<>>, step_executions |-> <<>>, created |-> {}]

\* lines 219-220: the first statements of the run
TaskStarted(W, t) ==
    LET db == SessionLocal(W.sessions)
    IN [W EXCEPT !.depth_var = ContextSet(@, t, W.tasks[t].depth + 1),
                 !.sessions = UseSession(@, db, t),
                 !.tasks[t].state = "started",
                 !.tasks[t].db = db]

\* lines 236-240: execute_workflow returned or raised r
RunEnded(W, t, r, S) ==
    [W EXCEPT !.sessions = UseSession(@, W.tasks[t].db, t),
              !.committed = MergeCommitted(@, S),
              !.tasks[t].state = "executed",
              !.tasks[t].outcome = IF r.raised = "" THEN r.S.execution.status
                                   ELSE "rolled_back",
              !.tasks[t].executions = S.committed.executions,
              !.tasks[t].step_executions = S.committed.step_executions,
              !.tasks[t].created = DOMAIN S.committed.rows \ DOMAIN W.committed.rows]

\* lines 238-240: an exception is logged and the session rolled back
RunCaught(W, t, r) ==
    RunEnded(W, t, r, IF r.raised = "" THEN r.S ELSE db_rollback_close(r.S))

\* lines 222-240: the workflow is loaded on the run's session and executed
TaskLoaded(W, t, found) ==
    IF found = <<>>
    THEN [W EXCEPT !.sessions = UseSession(@, W.tasks[t].db, t),
                   !.tasks[t].state = "executed",
                   !.tasks[t].outcome = "not_found"]
    ELSE RunCaught(W, t, execute_workflow(BeginSession(W.committed), found[1],
                                          W.tasks[t].trigger_event,
                                          W.tasks[t].company_id))

\* faulty variant: the run executes the definition the workflow was saved with
TaskExecuted_SavedDefinition(W, t) ==
    TaskLoaded(W, t, SelectSeq(AsyncWorkflowRows,
                               LAMBDA w : w.id = W.tasks[t].workflow_id))

TaskExecuted(W, t) ==
    TaskLoaded(W, t, SelectSeq(W.tables.workflows,
                               LAMBDA w : w.id = W.tasks[t].workflow_id))

\* faulty variant: a run that did not end COMPLETED is scheduled again
TaskFinished_Retries(W, t) ==
    [W EXCEPT !.sessions = CloseSession(@, W.tasks[t].db, t),
              !.depth_var = ContextSet(@, t, W.tasks[t].depth),
              !.tasks[t].state = IF W.tasks[t].outcome = "COMPLETED" THEN "done"
                                 ELSE "scheduled"]

\* faulty variant: the depth is put back on the paths without exception only
TaskFinished_RestoresOnSuccess(W, t) ==
    [W EXCEPT !.sessions = CloseSession(@, W.tasks[t].db, t),
              !.depth_var = IF W.tasks[t].outcome \in {"COMPLETED", "FAILED"}
                            THEN ContextSet(@, t, W.tasks[t].depth) ELSE @,
              !.tasks[t].state = "done"]

\* lines 241-243: finally
TaskFinished(W, t) ==
    [W EXCEPT !.sessions = CloseSession(@, W.tasks[t].db, t),
              !.depth_var = ContextSet(@, t, W.tasks[t].depth),
              !.tasks[t].state = "done"]

\* faulty variant: the run is awaited where it is created
create_task_Awaits(W, ctx, coro) ==
    LET t == Len(W.tasks) + 1
        W1 == [W EXCEPT !.tasks = Append(@, NewTask(coro, ctx)),
                        !.depth_var = ContextCopy(@, ctx, t)]
    IN TaskFinished(TaskExecuted(TaskStarted(W1, t), t), t)

\* asyncio.create_task: the coroutine is scheduled, not started
create_task(W, ctx, coro) ==
    LET t == Len(W.tasks) + 1
    IN [W EXCEPT !.tasks = Append(@, NewTask(coro, ctx)),
                 !.depth_var = ContextCopy(@, ctx, t)]

\* lines 114-122; a failing create_task raises at the last matched workflow
RECURSIVE CreateTasks(_, _, _, _, _, _, _)
CreateTasks(W, ctx, found_workflows, trigger_event, company_id, depth, fault) ==
    IF found_workflows = <<>> THEN [W |-> W, raised |-> ""]
    ELSE IF fault = "create_task" /\ Len(found_workflows) = 1
    THEN [W |-> W, raised |-> "RuntimeError"]
    ELSE CreateTasks(create_task(W, ctx,
                                 [workflow_id |-> Head(found_workflows).id,
                                  trigger_event |-> trigger_event,
                                  company_id |-> company_id, depth |-> depth]),
                     ctx, Tail(found_workflows), trigger_event, company_id, depth, fault)

\* faulty variant: the guard lets depth MAX_WORKFLOW_DEPTH through
DepthExceeded_OffByOne(depth) == depth > MAX_WORKFLOW_DEPTH

\* line 85
DepthExceeded(depth) == depth >= MAX_WORKFLOW_DEPTH

\* faulty variant: the exception leaves check_workflow_triggers
Caught_Reraises(exception) == "raised"

\* lines 124-125: except Exception: the error is logged, the call returns
Caught(exception) == "returned"

\* check_workflow_triggers called in context ctx: the world after the call and
\* what the call did
check_workflow_triggers(W, ctx, company_id, event, fault) ==
    LET depth == ContextGet(W.depth_var, ctx)
        report == [made |-> TRUE, ctx |-> ctx, depth |-> depth, event |-> event,
                   fault |-> fault, dropped |-> FALSE, matched |-> <<>>,
                   first_task |-> Len(W.tasks) + 1, outcome |-> "returned"]
    IN
    IF DepthExceeded(depth) THEN [W |-> W, call |-> [report EXCEPT !.dropped = TRUE]]
    ELSE IF fault = "query"
    THEN [W |-> W, call |-> [report EXCEPT !.outcome = Caught("OperationalError")]]
    ELSE
    LET found_workflows == find_matching_workflows(W.tables, company_id, event.resource_type,
                                           event.event_type, event.before_data,
                                           event.after_data)
        matched_ids == [i \in 1..Len(found_workflows) |-> found_workflows[i].id]
        trigger_event == [resource_type |-> event.resource_type,
                          event_type |-> event.event_type,
                          resource_id |-> UuidStr(event.resource_id)]
    IN
    IF found_workflows = <<>> THEN [W |-> W, call |-> report]
    ELSE IF fault = "serialize"
    THEN [W |-> W, call |-> [report EXCEPT !.matched = matched_ids,
                                           !.outcome = Caught("TypeError")]]
    ELSE
    LET loop == CreateTasks(W, ctx, found_workflows, trigger_event, company_id, depth, fault)
    IN [W |-> loop.W,
        call |-> [report EXCEPT !.matched = matched_ids,
                                !.outcome = IF loop.raised = "" THEN "returned"
                                            ELSE Caught(loop.raised)]]

InitAsync ==
    /\ tasks = <<>>
    /\ last_call = NotCalled
    /\ depth_var = (RequestContext :> 0)
    /\ sessions = <<[state |-> "open", users |-> {RequestContext}]>>
    /\ current = 0
    /\ tables = [workflows |-> AsyncWorkflowRows, triggers |-> AsyncTriggerRows]
    /\ committed = EmptyDb
    /\ call = NotCalled
    /\ matched = <<>>
    /\ workflow = [id |-> "w1", company_id |-> CompanyId, steps |-> <<>>, edges |-> <<>>]
    /\ pc = "idle"
    /\ execution = NoExecution
    /\ step_executions = <<>>
    /\ in_degree = EmptyDict
    /\ adjacency = EmptyDict
    /\ queue = <<>>
    /\ execution_context = [trigger |-> TriggerEvent, steps |-> EmptyDict]
    /\ entities = InitialRows
    /\ tx = EmptyDb
    /\ tx_state = "closed"
    /\ CondIdle
    /\ StepIdle
    /\ CycleIdle

asyncRest == <<workflow, pc, execution, step_executions, in_degree, adjacency, queue,
               execution_context, entities, tx, tx_state, call, matched,
               cond_call, cond_result, step_call, step_result,
               cycle_call, cycle_result>>

\* faulty variant: the run awaits its workflow query
SuspensionPoints_AwaitsQuery == {"started"}

\* the positions at which the coroutine of a run awaits: lines 219-243 hold
\* no await, so a run that has started keeps the loop until it has ended
SuspensionPoints == {}

\* the event loop can run something else
LoopFree == IF current = 0 THEN TRUE ELSE tasks[current].state \in SuspensionPoints

\* the number of calls request handlers have made
RequestsMade == IF last_call.made THEN last_call.requests ELSE 0

\* a CRUD request handler reports a change it made
RequestNotifiesChange ==
    /\ LoopFree
    /\ RequestsMade < MaxRequests
    /\ \E event \in RequestEvents, fault \in Faults :
        LET r == check_workflow_triggers(World, RequestContext, CompanyId, event, fault)
        IN /\ Len(r.W.tasks) <= MaxTasks
           /\ SetWorld(r.W)
           /\ last_call' = [requests |-> RequestsMade + 1] @@ r.call
    /\ UNCHANGED current

\* the change made by the running task (an order it created) is reported
\* while the task runs, in the task's context; each run reports it once
RunNotifiesChange ==
    /\ current # 0
    /\ tasks[current].state = "executed"
    /\ \E id \in tasks[current].created, fault \in Faults :
        LET r == check_workflow_triggers(World, current, tasks[current].company_id,
                                         OrderCreated(id), fault)
        IN /\ committed.rows[id].resource_type = "order"
           /\ ~(last_call.made /\ last_call.ctx = current)
           /\ Len(r.W.tasks) <= MaxTasks
           /\ SetWorld(r.W)
           /\ last_call' = [requests |-> RequestsMade] @@ r.call
    /\ UNCHANGED current

\* faulty variant: the task created last is started first
ReadyQueue_Lifo(tsks) ==
    LET ready == SelectSeq([i \in 1..Len(tsks) |-> i],
                           LAMBDA t : tsks[t].state = "scheduled")
    IN [i \in 1..Len(ready) |-> ready[Len(ready) + 1 - i]]

\* the tasks waiting for their first step, in the order create_task queued them
ReadyQueue(tsks) ==
    SelectSeq([i \in 1..Len(tsks) |-> i], LAMBDA t : tsks[t].state = "scheduled")

\* the event loop starts the oldest task that is waiting
TaskStart ==
    /\ LoopFree
    /\ ReadyQueue(tasks) # <<>>
    /\ SetWorld(TaskStarted(World, Head(ReadyQueue(tasks))))
    /\ current' = Head(ReadyQueue(tasks))
    /\ UNCHANGED last_call

TaskExecute ==
    /\ current # 0
    /\ tasks[current].state = "started"
    /\ SetWorld(TaskExecuted(World, current))
    /\ UNCHANGED <<current, last_call>>

TaskFinish ==
    /\ current # 0
    /\ tasks[current].state = "executed"
    /\ SetWorld(TaskFinished(World, current))
    /\ current' = 0
    /\ UNCHANGED last_call

\* no workflow definition has been changed since it was saved
Unedited == tables.workflows = AsyncWorkflowRows

\* the steps and edges an edit gives the workflow: two bulk updates in a row
EditedSteps ==
    <<[id |-> 2, action_type |-> "UPDATE_FIELD",
       action_config |-> [resource_type |-> "order",
                          resource_id_source |-> "match_field",
                          match_field |-> "client_id",
                          updates |-> [status |-> "CANCELLED"]]],
      [id |-> 3, action_type |-> "UPDATE_FIELD",
       action_config |-> [resource_type |-> "order",
                          resource_id_source |-> "match_field",
                          match_field |-> "client_id",
                          updates |-> [status |-> "CANCELLED"]]]>>

EditedEdges == <<[from_step_id |-> 2, to_step_id |-> 3]>>

\* a request handler switches off a workflow some task is waiting to run
DeactivateWorkflow ==
    /\ LoopFree
    /\ Unedited
    /\ \E t \in 1..Len(tasks) :
        /\ tasks[t].state = "scheduled"
        /\ tables' = [tables EXCEPT !.workflows =
                         [i \in 1..Len(@) |->
                             IF @[i].id = tasks[t].workflow_id
                             THEN [@[i] EXCEPT !.is_active = FALSE] ELSE @[i]]]
    /\ UNCHANGED <<tasks, last_call, depth_var, sessions, current, committed>>

\* a request handler replaces the steps and edges of a workflow some task is
\* waiting to run
EditWorkflow ==
    /\ LoopFree
    /\ Unedited
    /\ \E t \in 1..Len(tasks) :
        /\ tasks[t].state = "scheduled"
        /\ tables' = [tables EXCEPT !.workflows =
                         [i \in 1..Len(@) |->
                             IF @[i].id = tasks[t].workflow_id
                             THEN [@[i] EXCEPT !.steps = EditedSteps,
                                               !.edges = EditedEdges]
                             ELSE @[i]]]
    /\ UNCHANGED <<tasks, last_call, depth_var, sessions, current, committed>>

\* a request handler deletes a workflow some task is waiting to run (its
\* triggers go with it); one workflow definition is changed at most
DeleteWorkflow ==
    /\ LoopFree
    /\ Unedited
    /\ \E t \in 1..Len(tasks) :
        /\ tasks[t].state = "scheduled"
        /\ \E i \in 1..Len(tables.workflows) : tables.workflows[i].id = tasks[t].workflow_id
        /\ tables' = [workflows |-> SelectSeq(tables.workflows,
                                       LAMBDA w : w.id # tasks[t].workflow_id),
                      triggers |-> SelectSeq(tables.triggers,
                                       LAMBDA trigger : trigger.workflow_id
                                                            # tasks[t].workflow_id)]
    /\ UNCHANGED <<tasks, last_call, depth_var, sessions, current, committed>>

NextAsync ==
    \/ RequestNotifiesChange /\ UNCHANGED asyncRest
    \/ RunNotifiesChange /\ UNCHANGED asyncRest
    \/ TaskStart /\ UNCHANGED asyncRest
    \/ TaskExecute /\ UNCHANGED asyncRest
    \/ TaskFinish /\ UNCHANGED asyncRest
    \/ DeleteWorkflow /\ UNCHANGED asyncRest
    \/ DeactivateWorkflow /\ UNCHANGED asyncRest
    \/ EditWorkflow /\ UNCHANGED asyncRest

SpecAsync == InitAsync /\ [][NextAsync]_vars

(***************************************************************************)
(* Properties of triggering and of the background runs (under SpecAsync)   *)
(***************************************************************************)
TaskIds == 1..Len(tasks)

\* how many runs deep task t is in its chain: 1 for a run scheduled from a
\* request handler, one more than its parent run otherwise
RECURSIVE Level(_)
Level(t) ==
    IF tasks[t].parent = RequestContext THEN 1 ELSE 1 + Level(tasks[t].parent)

\* the tasks the last call created
NewTasks == {t \in TaskIds : last_call.made /\ t >= last_call.first_task}

Running(t) == tasks[t].state \in {"started", "executed"}

\* C14: no chain of runs is more than 3 deep; a call made at depth 3 or more
\* is dropped and creates no task, a call at depth 0, 1 or 2 that nothing
\* interrupts creates one task per matched workflow, and Execution rows come
\* from runs only.
C14_DepthBounded ==
    /\ \A t \in TaskIds :
          /\ Level(t) <= MAX_WORKFLOW_DEPTH
          /\ tasks[t].depth = Level(t) - 1
    /\ Len(committed.executions)
           <= Cardinality({t \in TaskIds : tasks[t].state \in {"executed", "done"}})
    /\ last_call.made =>
          /\ last_call.depth >= 3 => (last_call.dropped /\ NewTasks = {})
          /\ (last_call.depth < 3 /\ last_call.fault = "none") =>
                /\ ~last_call.dropped
                /\ Cardinality(NewTasks) = Len(last_call.matched)
                /\ \A t \in NewTasks : tasks[t].depth = last_call.depth

C14_Witness ==
    /\ last_call.made
    /\ last_call.depth = 3
    /\ last_call.dropped
    /\ \E t \in TaskIds : Level(t) = 3 /\ last_call.ctx = t
    /\ \E t \in TaskIds : tasks[t].depth = 2 /\ tasks[t].parent # RequestContext
    /\ Len(committed.executions) = 3

\* C15 as stated: the counter of a run is one above the caller's from the
\* moment the run is scheduled until it ends, and is the caller's afterwards.
C15_DepthRaisedWhenScheduled ==
    \A t \in TaskIds :
        depth_var[t] = IF tasks[t].state = "done" THEN tasks[t].depth
                       ELSE tasks[t].depth + 1

\* C15 amended: the counter is raised by the run itself, as its first
\* statement and in its own context: a scheduled run that has not started
\* still carries the caller's depth, a started run carries one more until it
\* ends, and a finished run carries the caller's depth again, whether the
\* workflow was not found, the run returned or an exception was caught.
C15_DepthRaisedByRun ==
    \A t \in TaskIds :
        /\ tasks[t].state = "scheduled" => depth_var[t] = tasks[t].depth
        /\ Running(t) => depth_var[t] = tasks[t].depth + 1
        /\ tasks[t].state = "done" =>
              /\ tasks[t].outcome \in {"not_found", "COMPLETED", "FAILED", "rolled_back"}
              /\ depth_var[t] = tasks[t].depth

C15_Witness ==
    /\ \A t \in TaskIds : tasks[t].state = "done"
    /\ {"not_found", "COMPLETED", "rolled_back"}
           \subseteq {tasks[t].outcome : t \in TaskIds}
    /\ \E t \in TaskIds : tasks[t].depth = 1

\* C16: a call from a request handler observes depth 0, a call made inside a
\* run observes the number of runs of its own chain, and the counter of every
\* context is decided by the state of its own run alone, whatever the runs of
\* other chains have done.
C16_DepthPerChain ==
    /\ depth_var[RequestContext] = 0
    /\ last_call.made =>
          last_call.depth = IF last_call.ctx = RequestContext THEN 0
                            ELSE Level(last_call.ctx)
    /\ \A t \in TaskIds :
          depth_var[t] = IF Running(t) THEN Level(t) ELSE Level(t) - 1

C16_Witness ==
    /\ last_call.made
    /\ last_call.ctx = RequestContext
    /\ last_call.depth = 0
    /\ last_call.requests = 2
    /\ NewTasks # {}
    /\ \E t \in TaskIds : tasks[t].state = "done" /\ Level(t) = 2
    /\ \E t \in TaskIds \ NewTasks : tasks[t].state = "scheduled"

\* C17: a step in which check_workflow_triggers is called changes nothing but
\* the task list and the contexts: every task it adds is scheduled and has
\* not started (no session, no Execution row, no created row), the database
\* and the sessions are as before, and without a failure there is one new
\* task per matched workflow.
C17_FireAndForget ==
    [][last_call' # last_call =>
          /\ committed' = committed
          /\ sessions' = sessions
          /\ current' = current
          /\ Len(tasks') >= Len(tasks)
          /\ \A t \in 1..Len(tasks) : tasks'[t] = tasks[t]
          /\ \A t \in (Len(tasks) + 1)..Len(tasks') :
                /\ tasks'[t].state = "scheduled"
                /\ tasks'[t].db = NoSession
                /\ tasks'[t].executions = <<>>
                /\ tasks'[t].created = {}
          /\ (last_call'.fault = "none" /\ ~last_call'.dropped) =>
                /\ Len(tasks') - Len(tasks) = Len(last_call'.matched)
                /\ \A i \in 1..Len(last_call'.matched) :
                      tasks'[Len(tasks) + i].workflow_id = last_call'.matched[i]
      ]_vars

C17_Witness ==
    /\ last_call.made
    /\ last_call.fault = "none"
    /\ Len(last_call.matched) = 2
    /\ Cardinality(NewTasks) = 2
    /\ \A t \in NewTasks : tasks[t].state = "scheduled" /\ tasks[t].db = NoSession
    /\ committed.executions = <<>>
    /\ committed.rows = InitialRows

\* C18: every call of check_workflow_triggers returns normally, whatever
\* failed inside it, and no exception of a run leaves its task.
C18_NothingPropagates ==
    /\ last_call.made => last_call.outcome = "returned"
    /\ \A t \in TaskIds : tasks[t].escaped = ""

C18_Witness ==
    /\ last_call.made
    /\ last_call.fault = "create_task"
    /\ Len(last_call.matched) = 2
    /\ Cardinality(NewTasks) = 1
    /\ last_call.outcome = "returned"
    /\ \E t \in TaskIds : tasks[t].state = "done" /\ tasks[t].outcome = "rolled_back"

C18_WitnessQueryError ==
    /\ last_call.made
    /\ last_call.fault = "query"
    /\ last_call.ctx # RequestContext
    /\ last_call.outcome = "returned"

\* C19: a run that has started works on a session of its own, which is not
\* the request's and which no other context has used; the session is open
\* while the run is in progress and closed once the run has ended, whatever
\* its outcome; the request's session is used by request handlers only.
C19_OwnSessionClosed ==
    /\ sessions[RequestSession] = [state |-> "open", users |-> {RequestContext}]
    /\ \A t \in TaskIds :
          /\ tasks[t].state = "scheduled" => tasks[t].db = NoSession
          /\ tasks[t].state # "scheduled" =>
                /\ tasks[t].db \notin {NoSession, RequestSession}
                /\ sessions[tasks[t].db].users = {t}
                /\ \A u \in TaskIds \ {t} : tasks[u].db # tasks[t].db
          /\ Running(t) => sessions[tasks[t].db].state = "open"
          /\ tasks[t].state = "done" => sessions[tasks[t].db].state = "closed"

C19_Witness ==
    /\ Len(tasks) = 3
    /\ \A t \in TaskIds : tasks[t].state = "done"
    /\ {tasks[t].outcome : t \in TaskIds} = {"FAILED", "not_found", "rolled_back"}
    /\ Len(sessions) = 4

\* how far a task has got
Progress == [scheduled |-> 0, started |-> 1, executed |-> 2, done |-> 3]

\* list a begins list b
IsPrefix(a, b) == Len(a) <= Len(b) /\ a = SubSeq(b, 1, Len(a))

NoDuplicates(list) == \A i, j \in 1..Len(list) : list[i] = list[j] => i = j

StepIdsOf(records) == [i \in 1..Len(records) |-> records[i].step_id]

\* C23: tasks are created by check_workflow_triggers only, one per matched
\* workflow and no workflow twice for one event; a task goes from scheduled
\* to done once and a finished task, FAILED ones included, is never touched
\* again; a run commits at most one Execution and no two StepExecutions of
\* one step; committed Execution and StepExecution rows are only added to.
C23_NoRetries ==
    [][/\ Len(tasks') >= Len(tasks)
       /\ \A t \in 1..Len(tasks) :
             /\ Progress[tasks'[t].state] >= Progress[tasks[t].state]
             /\ tasks[t].state = "done" => tasks'[t] = tasks[t]
             /\ tasks[t].executions # <<>> => tasks'[t].executions = tasks[t].executions
       /\ Len(tasks') > Len(tasks) =>
             /\ last_call' # last_call
             /\ Len(tasks') - Len(tasks) <= Len(last_call'.matched)
             /\ NoDuplicates(last_call'.matched)
             /\ \A t \in (Len(tasks) + 1)..Len(tasks') :
                   tasks'[t].workflow_id = last_call'.matched[t - Len(tasks)]
       /\ \A t \in 1..Len(tasks') :
             /\ Len(tasks'[t].executions) <= 1
             /\ NoDuplicates(StepIdsOf(tasks'[t].step_executions))
       /\ IsPrefix(committed.executions, committed'.executions)
       /\ IsPrefix(committed.step_executions, committed'.step_executions)
       /\ Len(committed'.executions)
              = Cardinality({t \in 1..Len(tasks') : tasks'[t].executions # <<>>})
      ]_vars

C23_Witness ==
    /\ current = 0
    /\ Len(tasks) = 3
    /\ \A t \in TaskIds : tasks[t].state = "done"
    /\ {tasks[t].outcome : t \in TaskIds} = {"COMPLETED", "FAILED", "rolled_back"}
    /\ Len(committed.executions) = 2
    /\ \E t \in TaskIds :
          /\ tasks[t].outcome = "FAILED"
          /\ Len(tasks[t].executions) = 1
          /\ tasks[t].executions[1].status = "FAILED"
          /\ Len(tasks[t].step_executions) = 1

\* C29: at most one run is between its first statement and the closing of
\* its session, and it is the one the loop is running; while it is, no other
\* task and no workflow definition changes and the only calls of
\* check_workflow_triggers are its own; tasks start in the order in which
\* they were created, each after the one before it has ended.
C29_RunsSerialized ==
    [][/\ Cardinality({t \in 1..Len(tasks') : tasks'[t].state \in {"started", "executed"}})
              <= 1
       /\ \A t \in 1..Len(tasks') :
             tasks'[t].state \in {"started", "executed"} =>
                 /\ current' = t
                 /\ \A u \in 1..(t - 1) : tasks'[u].state = "done"
       /\ \A t, u \in 1..Len(tasks') :
             (t < u /\ tasks'[u].state # "scheduled") => tasks'[t].state # "scheduled"
       /\ \A t \in TaskIds :
             Running(t) =>
                 /\ tables' = tables
                 /\ \A u \in TaskIds \ {t} : tasks'[u] = tasks[u]
                 /\ last_call' # last_call => last_call'.ctx = t
                 /\ current' \in {t, 0}
                 /\ current' = 0 => tasks'[t].state = "done"
      ]_vars

C29_Witness ==
    /\ Len(tasks) = 3
    /\ tasks[1].state = "done"
    /\ tasks[2].state = "started"
    /\ tasks[3].state = "scheduled"
    /\ tasks[1].parent = RequestContext
    /\ tasks[2].parent = RequestContext
    /\ tasks[1].trigger_event = tasks[2].trigger_event
    /\ tasks[1].workflow_id # tasks[2].workflow_id
    /\ current = 2

\* the rows of the workflow table with the id task t was created for
LoadedFor(t) == SelectSeq(tables.workflows, LAMBDA w : w.id = tasks[t].workflow_id)

PositionIn(list, x) == CHOOSE i \in 1..Len(list) : list[i] = x

\* C30: the step in which a run loads and executes its workflow works on the
\* workflow table as it is at that step: with no row of the workflow's id the
\* run ends without an Execution and without a write; with a row, active or
\* not, the run executes, its one Execution is of that workflow, the steps it
\* ran are steps of the loaded definition in an order the loaded edges allow,
\* and a COMPLETED run ran all of them.
C30_RunsDefinitionAtStart ==
    [][\A t \in TaskIds :
         (tasks[t].state = "started" /\ tasks'[t].state = "executed") =>
             LET ran == StepIdsOf(tasks'[t].step_executions)
             IN IF LoadedFor(t) = <<>>
                THEN /\ tasks'[t].outcome = "not_found"
                     /\ tasks'[t].executions = <<>>
                     /\ tasks'[t].step_executions = <<>>
                     /\ committed' = committed
                ELSE /\ tasks'[t].outcome \in {"COMPLETED", "FAILED", "rolled_back"}
                     /\ tasks'[t].outcome # "rolled_back" =>
                            /\ Len(tasks'[t].executions) = 1
                            /\ tasks'[t].executions[1].workflow_id = tasks[t].workflow_id
                            /\ tasks'[t].executions[1].status = tasks'[t].outcome
                            /\ committed'.executions
                                   = committed.executions \o tasks'[t].executions
                     /\ Range(ran) \subseteq {step.id : step \in Range(LoadedFor(t)[1].steps)}
                     /\ NoDuplicates(ran)
                     /\ tasks'[t].outcome = "COMPLETED" =>
                            Range(ran) = {step.id : step \in Range(LoadedFor(t)[1].steps)}
                     /\ \A e \in Range(LoadedFor(t)[1].edges) :
                            e.to_step_id \in Range(ran) =>
                                /\ e.from_step_id \in Range(ran)
                                /\ PositionIn(ran, e.from_step_id)
                                       < PositionIn(ran, e.to_step_id)
      ]_vars

\* a workflow edited after the event matched ran with its new steps and edge
C30_Witness ==
    \E t \in TaskIds :
        /\ tasks[t].state = "done"
        /\ tasks[t].outcome = "COMPLETED"
        /\ LoadedFor(t) # <<>>
        /\ LoadedFor(t)[1].steps = EditedSteps
        /\ \E w \in Range(AsyncWorkflowRows) :
              w.id = tasks[t].workflow_id /\ w.steps # EditedSteps
        /\ StepIdsOf(tasks[t].step_executions) = <<2, 3>>

\* a workflow deleted after the event matched: the run ended without a record
C30_WitnessDeleted ==
    \E t \in TaskIds :
        /\ tasks[t].state = "done"
        /\ tasks[t].outcome = "not_found"
        /\ LoadedFor(t) = <<>>
        /\ committed.executions = <<>>

\* a workflow deactivated after the event matched ran all the same
C30_WitnessDeactivated ==
    \E t \in TaskIds :
        /\ tasks[t].state = "done"
        /\ tasks[t].outcome = "COMPLETED"
        /\ LoadedFor(t) # <<>>
        /\ ~LoadedFor(t)[1].is_active
        /\ Len(tasks[t].executions) = 1
        /\ StepIdsOf(tasks[t].step_executions) = <<1>>

(***************************************************************************)
(* detect_cycle, and SpecCycle: detect_cycle and execute_workflow on the   *)
(* same bounded graph                                                      *)
(***************************************************************************)
MaxCycleEdges == 3

\* lines 457-461: adj and in_deg from the list of (u, v) pairs
RECURSIVE CycleGraph(_, _, _)
CycleGraph(edges, in_deg, adj) ==
    IF edges = <<>> THEN [in_deg |-> in_deg, adj |-> adj]
    ELSE CycleGraph(Tail(edges),
                    [in_deg EXCEPT ![Head(edges)[2]] = @ + 1],
                    [adj EXCEPT ![Head(edges)[1]] = Append(@, Head(edges)[2])])

\* lines 468-471: the neighbours of the visited node
RECURSIVE VisitNeighbors(_, _, _)
VisitNeighbors(neighbors, in_deg, q) ==
    IF neighbors = <<>> THEN [in_deg |-> in_deg, queue |-> q]
    ELSE VisitNeighbors(Tail(neighbors),
                        [in_deg EXCEPT ![Head(neighbors)] = @ - 1],
                        IF in_deg[Head(neighbors)] - 1 = 0
                        THEN Append(q, Head(neighbors)) ELSE q)

\* faulty variant: every node is queued, whatever its in-degree
CycleQueue_AllNodes(steps_count, in_deg) == [i \in 1..steps_count |-> i - 1]

\* line 463: the nodes of in-degree 0, in increasing order
CycleQueue(steps_count, in_deg) ==
    SelectSeq([i \in 1..steps_count |-> i - 1], LAMBDA i : in_deg[i] = 0)

\* lines 464-471: the sweep; its value is `visited` when the queue is empty
RECURSIVE CycleSweep(_, _, _, _)
RECURSIVE CycleVisited(_, _, _)
CycleVisited(red, adj, visited) == CycleSweep(red.queue, red.in_deg, adj, visited)

CycleSweep(q, in_deg, adj, visited) ==
    IF q = <<>> THEN visited
    ELSE CycleVisited(VisitNeighbors(adj[Head(q)], in_deg, Tail(q)), adj, visited + 1)

\* the sweep on the graph built from the edges
SweepGraph(steps_count, g) ==
    CycleSweep(CycleQueue(steps_count, g.in_deg), g.in_deg, g.adj, 0)

\* `visited` at line 473 (0 when line 455 returns)
Visited(steps_count, edges) ==
    IF steps_count = 0 THEN 0
    ELSE SweepGraph(steps_count,
                    CycleGraph(edges,
                               [i \in 0..(steps_count - 1) |-> 0],
                               [i \in 0..(steps_count - 1) |-> <<>>]))

detect_cycle(steps_count, edges) ==
    IF steps_count = 0 THEN FALSE
    ELSE Visited(steps_count, edges) # steps_count

\* the lists of (u, v) pairs over the nodes 0..n-1.  adj[u] keeps the order
\* of the pairs leaving u and nothing else of the order, so the lists are
\* taken with the pairs grouped by u, in any order within a group.
CycleEdgeLists(n) ==
    {es \in UNION {[1..k -> (0..(n - 1)) \X (0..(n - 1))] : k \in 0..MaxCycleEdges} :
        \A i \in 1..(Len(es) - 1) : es[i][1] <= es[i + 1][1]}

\* the action of step i of the workflow: both kinds succeed on every state
GraphStepAction(i) ==
    IF i % 2 = 1
    THEN [action_type |-> "CREATE_ENTITY",
          action_config |-> [resource_type |-> "order",
                             data |-> [status |-> "ACTIVE", client_id |-> "r1"]]]
    ELSE [action_type |-> "UPDATE_FIELD",
          action_config |-> [resource_type |-> "order",
                             resource_id_source |-> "match_field",
                             match_field |-> "client_id",
                             updates |-> [status |-> "CANCELLED"]]]

\* the workflow whose steps are the nodes (step i + 1 for node i) and whose
\* edges are the pairs
GraphWorkflow(n, es) ==
    [id |-> "w1", company_id |-> CompanyId,
     steps |-> [i \in 1..n |-> [id |-> i,
                                action_type |-> GraphStepAction(i).action_type,
                                action_config |-> GraphStepAction(i).action_config]],
     edges |-> [k \in 1..Len(es) |-> [from_step_id |-> es[k][1] + 1,
                                      to_step_id |-> es[k][2] + 1]]]

InitCycle ==
    /\ \E n \in 0..MaxSteps :
          \E es \in CycleEdgeLists(n) :
              /\ cycle_call = [made |-> FALSE, steps_count |-> n, edges |-> es]
              /\ workflow = GraphWorkflow(n, es)
    /\ cycle_result = NotCalled
    /\ pc = "loaded"
    /\ execution = NoExecution
    /\ step_executions = <<>>
    /\ in_degree = EmptyDict
    /\ adjacency = EmptyDict
    /\ queue = <<>>
    /\ execution_context = [trigger |-> TriggerEvent, steps |-> EmptyDict]
    /\ entities = InitialRows
    /\ tx = EmptyDb
    /\ tx_state = "active"
    /\ committed = EmptyDb
    /\ MatchIdle
    /\ CondIdle
    /\ StepIdle
    /\ AsyncIdle

\* detect_cycle called on the graph
DetectCycle ==
    /\ ~cycle_call.made
    /\ cycle_call' = [cycle_call EXCEPT !.made = TRUE]
    /\ cycle_result' =
          [made |-> TRUE,
           returned |-> detect_cycle(cycle_call.steps_count, cycle_call.edges),
           visited |-> Visited(cycle_call.steps_count, cycle_call.edges)]
    /\ UNCHANGED runVars

\* the session once execute_workflow returned or raised r (lines 238-242)
RunClosed(r) ==
    IF r.raised = "" THEN [r.S EXCEPT !.tx_state = "closed"]
    ELSE db_rollback_close(r.S)

\* one run of execute_workflow on the workflow of the graph
ExecuteWorkflow ==
    /\ pc = "loaded"
    /\ SetSess(RunClosed(execute_workflow(Sess, workflow, TriggerEvent, CompanyId)))
    /\ pc' = "done"
    /\ UNCHANGED <<workflow, in_degree, adjacency, queue, execution_context,
                   cycle_call, cycle_result>>

NextCycle ==
    \/ DetectCycle /\ UNCHANGED <<matchVars, condVars, stepVars, asyncVars>>
    \/ ExecuteWorkflow /\ UNCHANGED <<matchVars, condVars, stepVars, asyncVars>>

SpecCycle == InitCycle /\ [][NextCycle]_vars

(***************************************************************************)
(* Properties of detect_cycle (checked under SpecCycle)                    *)
(***************************************************************************)
CycleNodes == 0..(cycle_call.steps_count - 1)

CycleEdges == Range(cycle_call.edges)

\* the nodes reached from the set along the edges
RECURSIVE ReachedFrom(_)
ReachedFrom(set) ==
    LET more == set \cup {e[2] : e \in {e \in CycleEdges : e[1] \in set}}
    IN IF more = set THEN set ELSE ReachedFrom(more)

\* some node is reached from itself along one edge or more
HasCycle ==
    \E v \in CycleNodes :
        v \in ReachedFrom({e[2] : e \in {e \in CycleEdges : e[1] = v}})

\* C24: on nodes 0..steps_count-1 and edges between them, detect_cycle
\* returns true exactly when some node is reached from itself along the
\* edges (a self-loop included), returns false for steps_count 0, and its
\* sweep ends after visiting no node twice.
C24_DetectCycleExact ==
    cycle_call.made =>
        /\ cycle_result.returned <=> HasCycle
        /\ cycle_call.steps_count = 0 => ~cycle_result.returned
        /\ cycle_result.visited <= cycle_call.steps_count

C24_Witness ==
    /\ cycle_call.made
    /\ cycle_call.steps_count = 3
    /\ cycle_call.edges = << <<0, 1>>, <<1, 2>>, <<2, 0>> >>
    /\ cycle_result.returned

C24_WitnessSelfLoop ==
    /\ cycle_call.made
    /\ cycle_call.steps_count = 2
    /\ cycle_call.edges = << <<1, 1>> >>
    /\ cycle_result.returned
    /\ cycle_result.visited = 1

C24_WitnessAcyclic ==
    /\ cycle_call.made
    /\ cycle_call.steps_count = 3
    /\ cycle_call.edges = << <<0, 2>>, <<0, 2>>, <<1, 2>> >>
    /\ ~cycle_result.returned

\* C28: on the same steps and edges, detect_cycle returns false exactly when
\* a run of execute_workflow whose steps all succeed makes a StepExecution
\* for every step of the workflow.
C28_DetectorAgreesWithExecutor ==
    (cycle_call.made /\ pc = "done") =>
        /\ NoStepFailed
        /\ ~cycle_result.returned <=> Executed = StepSet

C28_Witness ==
    /\ cycle_call.made
    /\ pc = "done"
    /\ cycle_result.returned
    /\ Executed # {}
    /\ Executed # StepSet
    /\ execution.status = "COMPLETED"

C28_WitnessAcyclic ==
    /\ cycle_call.made
    /\ pc = "done"
    /\ ~cycle_result.returned
    /\ Len(step_executions) = 3
    /\ Len(workflow.edges) = 3
    /\ committed.step_executions = step_executions

====
